---- MODULE Spec2Model ----
(***************************************************************************)
(* A model of the tool-calling chat client of python-use-example.py: the  *)
(* conversation driver (ask), the tool dispatcher (parse_tool_call), the   *)
(* two tool executors, the streaming response decoder and the chat loop    *)
(* around them (Spec), and of the Conversation of models/conversation.py   *)
(* with its history files (HistorySpec).                                   *)
(*                                                                         *)
(* Text is a sequence of symbols (words and punctuation marks, each a TLA+ *)
(* string); concatenation is \o.  JSON text is text whose symbols are the  *)
(* JSON punctuation, the quote and the backslash, so that json.dumps and   *)
(* json.loads are real conversions between text and values.                *)
(***************************************************************************)
EXTENDS Integers, Sequences, FiniteSets, TLC

\* ------------------------------------------------------------------ bounds

\* Largest tool-iteration budget a caller passes to ask.
MaxBudget == 2

\* ------------------------------------------------------------- text, values

Q  == "\""
BS == "\\"
SQ == "'"

\* Optional values: None is the empty sequence, Some(x) the one-element one.
None == <<>>
Some(x) == <<x>>

\* sub occurs in s as a contiguous run of symbols (Python's `sub in s`).
Contains(s, sub) ==
    \E i \in 0 .. (Len(s) - Len(sub)) :
        \A j \in 1 .. Len(sub) : s[i + j] = sub[j]

\* Python values as they come out of json.loads / ast.literal_eval:
\* t is the type, s the text of a str, n the number of an int, d the items of
\* a dict (key k, value v, in insertion order) or of a list (value v).
VNone    == [t |-> "none", s |-> <<>>, n |-> 0, d |-> <<>>]
VStr(x)  == [t |-> "str",  s |-> x,    n |-> 0, d |-> <<>>]
VInt(x)  == [t |-> "int",  s |-> <<>>, n |-> x, d |-> <<>>]
VDict(x) == [t |-> "dict", s |-> <<>>, n |-> 0, d |-> x]
VList(x) == [t |-> "list", s |-> <<>>, n |-> 0, d |-> x]

\* An int that does not fit the C int of the interpreter (2^31 and above),
\* held by its numeral x.
VBig(x)  == [t |-> "bigint", s |-> x, n |-> 0, d |-> <<>>]

Item(k, v) == [k |-> k, v |-> v]

\* d[k] = v on a dict's items: a present key keeps its place, a new one is last.
DictSet(items, k, v) ==
    IF \E i \in 1 .. Len(items) : items[i].k = k
    THEN [i \in 1 .. Len(items) |->
            IF items[i].k = k THEN Item(k, v) ELSE items[i]]
    ELSE Append(items, Item(k, v))

HasKey(v, k) == v.t = "dict" /\ \E i \in 1 .. Len(v.d) : v.d[i].k = k

Lookup(v, k) == v.d[CHOOSE i \in 1 .. Len(v.d) : v.d[i].k = k].v

\* The outcome of evaluating a Python expression: a value, or an exception
\* of class exc whose str() is msg.
Ok(v)          == [exc |-> "", msg |-> <<>>, val |-> v]
Raise(cls, m)  == [exc |-> cls, msg |-> m, val |-> VNone]

\* repr() of a str: single quotes unless the text holds one and no double
\* quote; the delimiter and the backslash are escaped.
RECURSIVE PyEscape(_, _)
PyEscape(s, delim) ==
    IF s = <<>> THEN <<>>
    ELSE (IF Head(s) = delim \/ Head(s) = BS THEN <<BS, Head(s)>> ELSE <<Head(s)>>)
         \o PyEscape(Tail(s), delim)

PyRepr(s) ==
    IF Contains(s, <<SQ>>) /\ ~Contains(s, <<Q>>)
    THEN <<Q>> \o PyEscape(s, Q) \o <<Q>>
    ELSE <<SQ>> \o PyEscape(s, SQ) \o <<SQ>>

\* v[k] for a str key k: a dict gives the value or KeyError (whose str() is
\* the repr of the key); anything else is no mapping, a TypeError.
Subscript(v, k) ==
    IF v.t = "dict"
    THEN IF HasKey(v, k) THEN Ok(Lookup(v, k)) ELSE Raise("KeyError", PyRepr(k))
    ELSE Raise("TypeError", <<"indices", "must", "be", "integers">>)

\* `k in v` for a str k is a TypeError unless v is a dict, a list or a str:
\* key membership in a dict, element membership in a list, substring in a str.
Iterable(v) == v.t \in {"dict", "list", "str"}

Member(k, v) ==
    CASE v.t = "dict" -> HasKey(v, k)
      [] v.t = "list" -> \E i \in 1 .. Len(v.d) : v.d[i].v = VStr(k)
      [] v.t = "str"  -> Contains(v.s, k)
      [] OTHER        -> FALSE

NotIterable == Raise("TypeError", <<"argument", "is", "not", "iterable">>)

\* ---------------------------------------------------------------- numerals

\* The integers whose decimal numerals the model reads and writes.
Numerals == (0 .. 31) \cup {1999, 2000, 2023, 2024}

IsNumeral(sym) == \E n \in Numerals : ToString(n) = sym

NumeralValue(sym) == CHOOSE n \in Numerals : ToString(n) = sym

\* --------------------------------------------------------------- json.dumps

RECURSIVE JsonEscape(_)
JsonEscape(s) ==
    IF s = <<>> THEN <<>>
    ELSE (IF Head(s) = Q \/ Head(s) = BS THEN <<BS, Head(s)>> ELSE <<Head(s)>>)
         \o JsonEscape(Tail(s))

JsonString(s) == <<Q>> \o JsonEscape(s) \o <<Q>>

RECURSIVE JsonDumps(_)
RECURSIVE JsonDumpItems(_, _)
JsonDumpItems(items, isDict) ==
    IF items = <<>> THEN <<>>
    ELSE (IF isDict THEN JsonString(Head(items).k) \o <<":">> ELSE <<>>)
         \o JsonDumps(Head(items).v)
         \o (IF Len(items) > 1 THEN <<",">> ELSE <<>>)
         \o JsonDumpItems(Tail(items), isDict)

JsonDumps(v) ==
    CASE v.t = "none" -> <<"null">>
      [] v.t = "int"  -> <<ToString(v.n)>>
      [] v.t = "str"  -> JsonString(v.s)
      [] v.t = "dict" -> <<"{">> \o JsonDumpItems(v.d, TRUE) \o <<"}">>
      [] v.t = "list" -> <<"[">> \o JsonDumpItems(v.d, FALSE) \o <<"]">>

\* --------------------------------------------- json.loads, ast.literal_eval

\* A parse of a prefix of a text: the value read and the text left over.
PDone(v, rest) == [ok |-> TRUE, v |-> v, rest |-> rest]
PFail == [ok |-> FALSE, v |-> VNone, rest |-> <<>>]

\* The characters of a string literal up to its closing delimiter; a
\* backslash makes the next symbol literal.
RECURSIVE ParseString(_, _, _)
ParseString(t, delim, acc) ==
    IF t = <<>> THEN PFail
    ELSE IF Head(t) = delim THEN PDone(VStr(acc), Tail(t))
    ELSE IF Head(t) = BS
         THEN IF Len(t) < 2 THEN PFail
              ELSE ParseString(SubSeq(t, 3, Len(t)), delim, Append(acc, t[2]))
    ELSE ParseString(Tail(t), delim, Append(acc, Head(t)))

\* py = FALSE reads JSON; py = TRUE reads a Python literal (either quote
\* delimits a str, None for null, a trailing comma is allowed).
RECURSIVE ParseValue(_, _)
RECURSIVE ParseMembers(_, _, _, _)
RECURSIVE AfterKey(_, _, _)
RECURSIVE AfterValue(_, _, _, _)
RECURSIVE AfterKeyValue(_, _, _, _)
RECURSIVE AfterItem(_, _, _)

Closer(isDict) == IF isDict THEN "}" ELSE "]"

Wrap(items, isDict) == IF isDict THEN VDict(items) ELSE VList(items)

\* After a member's value: the closing bracket ends the container, a comma
\* leads to the next member.
AfterValue(val, py, isDict, items) ==
    IF ~val.ok \/ val.rest = <<>> THEN PFail
    ELSE IF Head(val.rest) = Closer(isDict) THEN PDone(Wrap(items, isDict), Tail(val.rest))
    ELSE IF Head(val.rest) = "," THEN ParseMembers(Tail(val.rest), py, isDict, items)
    ELSE PFail

AfterKeyValue(val, py, acc, k) == AfterValue(val, py, TRUE, DictSet(acc, k, val.v))

AfterItem(val, py, acc) == AfterValue(val, py, FALSE, Append(acc, Item(<<>>, val.v)))

\* A key just read: it must be a str followed by a colon and a value.
AfterKey(key, py, acc) ==
    IF ~key.ok \/ key.v.t # "str" \/ key.rest = <<>> THEN PFail
    ELSE IF Head(key.rest) # ":" THEN PFail
    ELSE AfterKeyValue(ParseValue(Tail(key.rest), py), py, acc, key.v.s)

\* The members of a dict (isDict) or a list after the opening bracket, acc
\* being the items read so far.
ParseMembers(t, py, isDict, acc) ==
    IF t = <<>> THEN PFail
    ELSE IF Head(t) = Closer(isDict) /\ (acc = <<>> \/ py)
    THEN PDone(Wrap(acc, isDict), Tail(t))
    ELSE IF isDict THEN AfterKey(ParseValue(t, py), py, acc)
    ELSE AfterItem(ParseValue(t, py), py, acc)

ParseValue(t, py) ==
    IF t = <<>> THEN PFail
    ELSE IF Head(t) = Q \/ (py /\ Head(t) = SQ)
         THEN ParseString(Tail(t), Head(t), <<>>)
    ELSE IF Head(t) = "{" THEN ParseMembers(Tail(t), py, TRUE, <<>>)
    ELSE IF Head(t) = "[" THEN ParseMembers(Tail(t), py, FALSE, <<>>)
    ELSE IF Head(t) = (IF py THEN "None" ELSE "null") THEN PDone(VNone, Tail(t))
    ELSE IF IsNumeral(Head(t)) THEN PDone(VInt(NumeralValue(Head(t))), Tail(t))
    ELSE PFail

\* The whole text must have been read; otherwise the parser's exception.
WholeText(r, cls, m) == IF r.ok /\ r.rest = <<>> THEN Ok(r.v) ELSE Raise(cls, m)

\* json.loads: the whole text must be one JSON value.
JsonLoads(text) == WholeText(ParseValue(text, FALSE), "JSONDecodeError", <<"Expecting", "value">>)

\* ast.literal_eval: the whole text must be one Python literal.
LiteralEval(text) == WholeText(ParseValue(text, TRUE), "SyntaxError", <<"invalid", "syntax">>)

\* The class of an exception is cls or a subclass of it.
IsA(exc, cls) ==
    \/ exc = cls
    \/ cls = "Exception" /\ exc # ""
    \/ cls = "ValueError" /\ exc \in {"JSONDecodeError", "ValidationError"}

\* ------------------------------------------------------------ datetime.date

IsLeap(y) == (y % 4 = 0 /\ y % 100 # 0) \/ y % 400 = 0

DaysInMonth(y, m) ==
    CASE m \in {4, 6, 9, 11} -> 30
      [] m = 2               -> IF IsLeap(y) THEN 29 ELSE 28
      [] OTHER               -> 31

RECURSIVE DaysBeforeMonth(_, _)
DaysBeforeMonth(y, m) ==
    IF m <= 1 THEN 0 ELSE DaysBeforeMonth(y, m - 1) + DaysInMonth(y, m - 1)

\* date.toordinal(): the number of the day, 0001-01-01 being day 1.
Ordinal(y, m, d) ==
    (y - 1) * 365 + ((y - 1) \div 4) - ((y - 1) \div 100) + ((y - 1) \div 400)
    + DaysBeforeMonth(y, m) + d

Pad(n, width) ==
    LET t == ToString(n)
    IN IF width = 2 /\ n < 10 THEN "0" \o t
       ELSE IF width = 4 /\ n < 10 THEN "000" \o t
       ELSE IF width = 4 /\ n < 100 THEN "00" \o t
       ELSE IF width = 4 /\ n < 1000 THEN "0" \o t
       ELSE t

\* str() of a date: YYYY-MM-DD.
IsoDate(y, m, d) == <<Pad(y, 4), "-", Pad(m, 2), "-", Pad(d, 2)>>

\* int(v): an int of any size is itself; a str is read as a decimal numeral
\* (leading zeros allowed) or is a ValueError; a dict or a list is a TypeError.
PyInt(v) ==
    CASE v.t \in {"int", "bigint"} -> Ok(v)
      [] v.t = "str" ->
            IF Len(v.s) = 1 /\ \E n \in Numerals : v.s[1] \in {ToString(n), Pad(n, 2)}
            THEN Ok(VInt(CHOOSE n \in Numerals : v.s[1] \in {ToString(n), Pad(n, 2)}))
            ELSE Raise("ValueError", <<"invalid", "literal", "for", "int", "(", ")">>)
      [] OTHER -> Raise("TypeError", <<"int", "(", ")", "argument", "must", "be", "a", "string">>)

\* s.split(sep): the runs of symbols between the occurrences of sep.
RECURSIVE Split(_, _, _)
Split(s, sep, cur) ==
    IF s = <<>> THEN <<cur>>
    ELSE IF Head(s) = sep THEN <<cur>> \o Split(Tail(s), sep, <<>>)
    ELSE Split(Tail(s), sep, Append(cur, Head(s)))

Whitespace == {" ", "\n", "\t"}

\* s.strip()
RECURSIVE Strip(_)
Strip(s) ==
    IF s = <<>> THEN s
    ELSE IF Head(s) \in Whitespace THEN Strip(Tail(s))
    ELSE IF s[Len(s)] \in Whitespace THEN Strip(SubSeq(s, 1, Len(s) - 1))
    ELSE s

\* A tool result as the executors build it.
ErrorResult(m) ==
    VDict(<<Item(<<"status">>, VStr(<<"error">>)), Item(<<"message">>, VStr(m))>>)

SuccessResult(content, title) ==
    VDict(<<Item(<<"status">>, VStr(<<"success">>)),
            Item(<<"content">>, VStr(content)),
            Item(<<"title">>, VStr(title))>>)

\* ----------------------------------------------- subtract_dates_return_years

\* A str argument is decoded with json.loads and, when that raises, with
\* ast.literal_eval, whose exception is not caught.
DecodedOr(json, text) == IF json.exc = "" THEN json ELSE LiteralEval(text)

DecodeIfStr(v) == IF v.t # "str" THEN Ok(v) ELSE DecodedOr(JsonLoads(v.s), v.s)

\* A dict with a "date" key stands for the value under that key.
Unnest(v) == IF HasKey(v, <<"date">>) THEN Lookup(v, <<"date">>) ELSE v

\* The parts of a str split at "-": three or more give a {year, month, day}
\* dict of strs; with fewer the IndexError is swallowed and the list stays.
FromParts(parts) ==
    IF Len(parts) >= 3
    THEN VDict(<<Item(<<"year">>,  VStr(parts[1])),
                 Item(<<"month">>, VStr(parts[2])),
                 Item(<<"day">>,   VStr(parts[3]))>>)
    ELSE VList([i \in 1 .. Len(parts) |-> Item(<<>>, VStr(parts[i]))])

SplitIfStr(v) == IF v.t # "str" THEN v ELSE FromParts(Split(v.s, "-", <<>>))

DateKeys == <<(<<"year">>), (<<"month">>), (<<"day">>)>>

MissingKeys(v) == \E i \in 1 .. 3 : ~Member(DateKeys[i], v)

NullKeys(v) == \E i \in 1 .. 3 : Lookup(v, DateKeys[i]).t = "none"

\* datetime.date(y, m, d) on the three converted numbers: the first failed
\* conversion raises; a number that does not fit a C int is an OverflowError
\* of the constructor's argument parsing, before any range check; the first
\* failed range check is a ValueError; otherwise the date's three numbers.
DateOf(y, m, d) ==
    IF y.exc # "" THEN y
    ELSE IF m.exc # "" THEN m
    ELSE IF d.exc # "" THEN d
    ELSE IF "bigint" \in {y.val.t, m.val.t, d.val.t}
         THEN Raise("OverflowError", <<"signed", "integer", "is", "greater", "than", "maximum">>)
    ELSE IF y.val.n \notin 1 .. 9999
         THEN Raise("ValueError", <<"year", ToString(y.val.n), "is", "out", "of", "range">>)
    ELSE IF m.val.n \notin 1 .. 12
         THEN Raise("ValueError", <<"month", "must", "be", "in", "1..12">>)
    ELSE IF d.val.n \notin 1 .. DaysInMonth(y.val.n, m.val.n)
         THEN Raise("ValueError", <<"day", "is", "out", "of", "range", "for", "month">>)
    ELSE Ok(VList(<<Item(<<>>, y.val), Item(<<>>, m.val), Item(<<>>, d.val)>>))

\* datetime.date(int(v['year']), int(v['month']), int(v['day']))
MakeDate(v) ==
    DateOf(PyInt(Lookup(v, <<"year">>)), PyInt(Lookup(v, <<"month">>)),
           PyInt(Lookup(v, <<"day">>)))

DateOrdinal(dt) == Ordinal(dt.d[1].v.n, dt.d[2].v.n, dt.d[3].v.n)

DateText(dt) == IsoDate(dt.d[1].v.n, dt.d[2].v.n, dt.d[3].v.n)

\* YearsBetween as it would be if the years were counted by the calendar:
\* the difference of the year numbers, less one when the later date's month
\* and day come before the earlier date's.
YearsByCalendar(later, earlier) ==
    (later.d[1].v.n - earlier.d[1].v.n)
    - (IF later.d[2].v.n * 100 + later.d[3].v.n < earlier.d[2].v.n * 100 + earlier.d[3].v.n
       THEN 1 ELSE 0)

\* YearsBetween as it would be if the division rounded towards zero.
YearsTruncated(later, earlier) ==
    IF DateOrdinal(later) >= DateOrdinal(earlier)
    THEN (DateOrdinal(later) - DateOrdinal(earlier)) \div 365
    ELSE 0 - ((DateOrdinal(earlier) - DateOrdinal(later)) \div 365)

\* difference // 365
YearsBetween(later, earlier) == (DateOrdinal(later) - DateOrdinal(earlier)) \div 365

InvalidDate(what) == Ok(ErrorResult(<<"Invalid", "date", ":">> \o what))

\* The except clauses of the try block, lines 462-471: a ValueError becomes
\* an error result, any other exception escapes.
DateFailure(failed) ==
    IF IsA(failed.exc, "ValueError")
    THEN Ok(ErrorResult(<<"Failed", "to", "create", "date", "object", ":",
                          "invalid", "value", "for", "year", ",", "month", ",",
                          "or", "day", ":">> \o failed.msg))
    ELSE failed

\* Lines 451-480 on the two dates as constructed: the later one is
\* constructed first.
Difference(later, earlier) ==
    IF later.exc # "" THEN DateFailure(later)
    ELSE IF earlier.exc # "" THEN DateFailure(earlier)
    ELSE Ok(SuccessResult(
            <<"Difference", "in", "years", "between", "dates">>
                \o DateText(earlier.val) \o <<"and">> \o DateText(later.val)
                \o <<"is", ToString(YearsBetween(later.val, earlier.val)), ".">>,
            <<"Difference", "in", "years", "between">>
                \o DateText(later.val) \o <<"and">> \o DateText(earlier.val)))

\* Lines 428-480: the checks and the arithmetic on the normalised arguments.
SubtractNormalised(l, e) ==
    IF ~Iterable(l) THEN NotIterable
    ELSE IF MissingKeys(l)
         THEN InvalidDate(<<"one", "or", "more", "keys", "missing", "in", "later", "date">>)
    ELSE IF ~Iterable(e) THEN NotIterable
    ELSE IF MissingKeys(e)
         THEN InvalidDate(<<"one", "or", "more", "keys", "missing", "in", "earlier", "date">>)
    ELSE IF l.t # "dict" THEN Subscript(l, <<"year">>)
    ELSE IF NullKeys(l)
         THEN InvalidDate(<<"one", "or", "more", "keys", "is", "null", "in", "later", "date">>)
    ELSE IF e.t # "dict" THEN Subscript(e, <<"year">>)
    ELSE IF NullKeys(e)
         THEN InvalidDate(<<"one", "or", "more", "keys", "is", "null", "in", "earlier", "date">>)
    ELSE Difference(MakeDate(l), MakeDate(e))

\* Lines 392-425 on the two decoded arguments: an exception of the decoding
\* escapes (the later date is decoded first).
SubtractDecoded(l, e) ==
    IF l.exc # "" THEN l
    ELSE IF e.exc # "" THEN e
    ELSE SubtractNormalised(SplitIfStr(Unnest(l.val)), SplitIfStr(Unnest(e.val)))

SubtractDatesReturnYears(later_date, earlier_date) ==
    IF later_date.t = "none" \/ earlier_date.t = "none"
    THEN InvalidDate(<<"one", "or", "both", "dates", "are", "None">>)
    ELSE SubtractDecoded(DecodeIfStr(later_date), DecodeIfStr(earlier_date))

\* ------------------------------------------------------------------ messages

\* A message object: cls is its class, role and tool_call_id are None where
\* the class has no such value, tool_calls is empty where there are none.
Msg(cls, role, content, tool_calls, tool_call_id) ==
    [cls |-> cls, role |-> role, content |-> content, tool_calls |-> tool_calls,
     tool_call_id |-> tool_call_id, message_id |-> None, parent_message_id |-> None]

\* A tool call: id, type and the function's name are one-symbol texts, the
\* arguments are JSON text not yet parsed.
ToolCall(id, name, arguments) ==
    [id |-> id, type |-> <<"function">>,
     function |-> [name |-> name, arguments |-> arguments]]

\* ToolMessage as it would be with the id of the first call of the response
\* in place of the id passed.
ToolMessageFirstId(role, content, tool_call_id) ==
    IF role = None
    THEN Raise("ValidationError", <<"role", "Field", "required">>)
    ELSE [exc |-> "", msg |-> <<>>,
          val |-> Msg("ToolMessage", role, Some(content), <<>>, Some(<<"call_1">>))]

\* Message is the base class: role is a required field, and ToolMessage
\* (which adds the required tool_call_id) does not default it.
ToolMessage(role, content, tool_call_id) ==
    IF role = None
    THEN Raise("ValidationError", <<"role", "Field", "required">>)
    ELSE [exc |-> "", msg |-> <<>>,
          val |-> Msg("ToolMessage", role, Some(content), <<>>, Some(tool_call_id))]

UserMessage(content) == Msg("UserMessage", Some("user"), Some(content), <<>>, None)

SystemMessage(content) == Msg("SystemMessage", Some("system"), Some(content), <<>>, None)

AssistantMessage(content, tool_calls) ==
    Msg("AssistantMessage", Some("assistant"), content, tool_calls, None)

\* str() of the function of a tool call: its fields with their repr.
FunctionText(f) ==
    <<"arguments", "=">> \o PyRepr(f.arguments) \o <<"name", "=">> \o PyRepr(f.name)

\* -------------------------------------------------- fetch_wikipedia_content

\* What the remote side does to one lookup that reaches the network.
NetOutcomes ==
    {"search_raises", "no_hits", "extract_raises", "page_missing",
     "found", "found_cache_write_fails"}

\* The same, and the write of the cache file failing after part of the text
\* reached the file.
WriteOutcomes == NetOutcomes \cup {"found_cache_write_cut"}

\* str() of the exception of a failed remote call.
NetworkError == <<"Network", "error">>

\* The article the remote side resolves a query to.
WikiTitle(q) == q \o <<"(", "article", ")">>
WikiExtract(q) == <<"\n">> \o q \o <<"is", "an", "article", ".", "\n">>

\* str() of a query value, as it appears in an f-string.
QueryText(v) ==
    CASE v.t = "str"  -> v.s
      [] v.t = "int"  -> <<ToString(v.n)>>
      [] v.t = "none" -> <<"None">>
      [] OTHER        -> JsonDumps(v)

\* NoArticle as it would be without the query in the message.
NoArticleBare(v) == ErrorResult(<<"No", "Wikipedia", "article", "found">>)

NoArticle(v) ==
    ErrorResult(<<"No", "Wikipedia", "article", "found", "for", SQ>> \o QueryText(v) \o <<SQ>>)

\* The cache is a set of files, each named by the hash of a query (distinct
\* queries of the model have distinct hashes) and holding a text.
CacheFile(cache, key) == CHOOSE f \in cache : f.key = key

Fetched(out, cache, remote) == [out |-> out, cache |-> cache, remote |-> remote]

\* FetchRemote as it would be without the inner try around the cache write:
\* the outer handler turns the failed write into an error result.
FetchRemoteWriteFatal(search_query, cache, net, resp) ==
    CASE net = "search_raises"  -> Fetched(Ok(ErrorResult(NetworkError)), cache, 1)
      [] net = "no_hits"        -> Fetched(Ok(NoArticle(search_query)), cache, 1)
      [] net = "extract_raises" -> Fetched(Ok(ErrorResult(NetworkError)), cache, 2)
      [] net = "page_missing"   -> Fetched(Ok(NoArticle(search_query)), cache, 2)
      [] net = "found" ->
            Fetched(Ok(resp),
                    cache \cup {[key |-> search_query, text |-> JsonDumps(resp)]}, 2)
      [] OTHER -> Fetched(Ok(ErrorResult(<<"Permission", "denied">>)), cache, 2)

\* What a write that raised part-way leaves in the cache file.
CutShort(text) == SubSeq(text, 1, 3)

\* Lines 262-308: the lookup that reaches the network, resp being the result
\* built from the article when there is one. Only a successful fetch is
\* cached, and a failed write of the cache file is swallowed: it leaves no
\* file when open() raised and the start of the text when json.dump did.
FetchRemote(search_query, cache, net, resp) ==
    CASE net = "search_raises"  -> Fetched(Ok(ErrorResult(NetworkError)), cache, 1)
      [] net = "no_hits"        -> Fetched(Ok(NoArticle(search_query)), cache, 1)
      [] net = "extract_raises" -> Fetched(Ok(ErrorResult(NetworkError)), cache, 2)
      [] net = "page_missing"   -> Fetched(Ok(NoArticle(search_query)), cache, 2)
      [] net = "found" ->
            Fetched(Ok(resp),
                    cache \cup {[key |-> search_query, text |-> JsonDumps(resp)]}, 2)
      [] net = "found_cache_write_cut" ->
            Fetched(Ok(resp),
                    cache \cup {[key |-> search_query,
                                 text |-> CutShort(JsonDumps(resp))]}, 2)
      [] OTHER -> Fetched(Ok(resp), cache, 2)

\* FetchWikipediaContent as it would be without the look into the cache.
FetchUncached(search_query, cache, net) ==
    IF search_query.t \in {"dict", "list"}
    THEN Fetched(Raise("TypeError", <<"unhashable", "type">>), cache, 0)
    ELSE FetchRemote(search_query, cache, net,
                     SuccessResult(Strip(WikiExtract(QueryText(search_query))),
                                   WikiTitle(QueryText(search_query))))

\* fetch_wikipedia_content(search_query) in a process whose cache directory
\* holds `cache`, the remote side behaving as `net`: the outcome, the cache
\* afterwards and the number of remote requests made. Hashing the query and
\* reading a cache file are outside the try block.
FetchWikipediaContent(search_query, cache, net) ==
    IF search_query.t \in {"dict", "list"}
    THEN Fetched(Raise("TypeError", <<"unhashable", "type">>), cache, 0)
    ELSE IF \E f \in cache : f.key = search_query
    THEN Fetched(JsonLoads(CacheFile(cache, search_query).text), cache, 0)
    ELSE FetchRemote(search_query, cache, net,
                     SuccessResult(Strip(WikiExtract(QueryText(search_query))),
                                   WikiTitle(QueryText(search_query))))

\* ----------------------------------------------------------- parse_tool_call

WikiNames == {<<"fetch_wikipedia_content">>, <<"fetch_real_authoritative_text">>}

SubtractName == <<"subtract_dates_return_years">>

\* What the body of the try block leaves: out is the result (None when no
\* branch set it) or the exception raised, executed the executors invoked.
Body(out, cache, executed, remote) ==
    [out |-> out, cache |-> cache, executed |-> executed, remote |-> remote]

\* result[k] for each key of keys in turn: the first read that fails raises.
RECURSIVE ReadKeys(_, _)
ReadKeys(result, keys) ==
    IF keys = <<>> THEN Ok(result)
    ELSE IF result.t = "dict" /\ HasKey(result, Head(keys)) THEN ReadKeys(result, Tail(keys))
    ELSE Subscript(result, Head(keys))

\* The prints after an executor returns read result["status"] and then
\* the keys of that status; a read that fails raises.
ResultReads(result) ==
    IF result.t # "dict" \/ ~HasKey(result, <<"status">>) THEN Subscript(result, <<"status">>)
    ELSE IF Lookup(result, <<"status">>) = VStr(<<"success">>)
    THEN ReadKeys(result, <<(<<"title">>), (<<"content">>)>>)
    ELSE ReadKeys(result, <<(<<"message">>)>>)

\* The executor has run: f is what fetch_wikipedia_content left, name the
\* executor.
Executed(out, cache, name, remote) ==
    IF out.exc # "" THEN Body(out, cache, <<name>>, remote)
    ELSE Body(ResultReads(out.val), cache, <<name>>, remote)

Fetch(f) == Executed(f.out, f.cache, "fetch_wikipedia_content", f.remote)

\* Lines 529-547 once args['search_query'] has been read as q.
WikipediaQuery(q, cache, net) ==
    IF q.exc # "" THEN Body(q, cache, <<>>, 0)
    ELSE Fetch(FetchWikipediaContent(q.val, cache, net))

WikipediaBranch(args, cache, net) ==
    WikipediaQuery(Subscript(args, <<"search_query">>), cache, net)

\* MissingDates as it would be without the names of the keys.
MissingUnnamed == ErrorResult(<<"Missing", "required", "arguments">>)

MissingDates ==
    ErrorResult(<<"Missing", "required", "arguments", "later_date", "and/or", "earlier_date">>)

\* Lines 556-571 once the two arguments have been read as l and e.
SubtractDates(l, e, cache) ==
    IF l.exc # "" THEN Body(l, cache, <<>>, 0)
    ELSE IF e.exc # "" THEN Body(e, cache, <<>>, 0)
    ELSE Executed(SubtractDatesReturnYears(l.val, e.val), cache,
                  "subtract_dates_return_years", 0)

SubtractBranch(args, cache) ==
    IF ~Iterable(args) THEN Body(NotIterable, cache, <<>>, 0)
    ELSE IF ~Member(<<"later_date">>, args) \/ ~Member(<<"earlier_date">>, args)
    THEN Body(Ok(MissingDates), cache, <<>>, 0)
    ELSE SubtractDates(Subscript(args, <<"later_date">>),
                       Subscript(args, <<"earlier_date">>), cache)

\* The branches on the function's name once the arguments are decoded.
Branches(tool_call, args, cache, net) ==
    IF args.exc # "" THEN Body(args, cache, <<>>, 0)
    ELSE IF tool_call.function.name \in WikiNames
         THEN WikipediaBranch(args.val, cache, net)
    ELSE IF tool_call.function.name = SubtractName
         THEN SubtractBranch(args.val, cache)
    ELSE Body(Ok(VNone), cache, <<>>, 0)

ToolCallBody(tool_call, cache, net) ==
    Branches(tool_call, JsonLoads(tool_call.function.arguments), cache, net)

\* DoesNotExist as it would be with the text of an executor's failure.
ToolFailed(tool_call) ==
    ErrorResult(<<"Sorry", ",", "assistant", ",", "but", "the", "tool", "you", "requested">>
                \o FunctionText(tool_call.function) \o <<"failed", ".">>)

DoesNotExist(tool_call) ==
    ErrorResult(<<"Sorry", ",", "assistant", ",", "but", "the", "tool", "you", "requested">>
                \o FunctionText(tool_call.function) \o <<"does", "not", "exist", ".">>)

\* The role the handler of `except Exception` passes to ToolMessage.
ExceptionHandlerRole == None

\* The message parse_tool_call builds from what the try block left: the
\* result (or the does-not-exist error when there is none), the missing-key
\* error of the KeyError handler, or the error of the Exception handler.
BuiltMessage(tool_call, out) ==
    IF out.exc = ""
    THEN ToolMessage(Some("tool"),
                     JsonDumps(IF out.val.t = "none" THEN DoesNotExist(tool_call) ELSE out.val),
                     tool_call.id)
    ELSE IF IsA(out.exc, "KeyError")
    THEN ToolMessage(Some("tool"),
                     JsonDumps(ErrorResult(<<"Missing", "required", "arguments", ":">>
                                           \o out.msg)),
                     tool_call.id)
    ELSE ToolMessage(ExceptionHandlerRole, JsonDumps(ErrorResult(out.msg)), tool_call.id)

Parsed(made, body) ==
    [exc      |-> made.exc,
     messages |-> IF made.exc = "" THEN <<made.val>> ELSE <<>>,
     cache    |-> body.cache,
     executed |-> body.executed,
     remote   |-> body.remote]

ParsedBody(tool_call, body) == Parsed(BuiltMessage(tool_call, body.out), body)

\* parse_tool_call(tool_call): exc is the exception that escapes ("" when
\* the call returns), messages the list returned.
ParseToolCall(tool_call, cache, net) ==
    ParsedBody(tool_call, ToolCallBody(tool_call, cache, net))

\* ----------------------------------------------------------- dict_to_message

\* An object that is no dict, list, str, int or None (a pydantic model).
VObj(cls) == [t |-> "object", s |-> <<cls>>, n |-> 0, d |-> <<>>]

\* dict_to_message(message) on a Python value: the class is chosen by the
\* role; Message and its subclasses need a role, ToolMessage a tool_call_id.
DictToMessage(v) ==
    IF ~Iterable(v) THEN NotIterable
    ELSE IF v.t # "dict"
    THEN IF Member(<<"role">>, v) THEN Subscript(v, <<"role">>)
         ELSE Raise("TypeError", <<"argument", "after", "**", "must", "be", "a", "mapping">>)
    ELSE IF ~HasKey(v, <<"role">>)
    THEN Raise("ValidationError", <<"role", "Field", "required">>)
    ELSE LET role == Lookup(v, <<"role">>)
         IN CASE role = VStr(<<"user">>)      -> Ok(VObj("UserMessage"))
              [] role = VStr(<<"assistant">>) -> Ok(VObj("AssistantMessage"))
              [] role = VStr(<<"system">>)    -> Ok(VObj("SystemMessage"))
              [] role = VStr(<<"tool">>) ->
                    IF HasKey(v, <<"tool_call_id">>) THEN Ok(VObj("ToolMessage"))
                    ELSE Raise("ValidationError", <<"tool_call_id", "Field", "required">>)
              [] OTHER ->
                    IF role.t = "str" THEN Ok(VObj("Message"))
                    ELSE Raise("ValidationError", <<"role", "Input", "should", "be", "a", "string">>)

\* --------------------------------------------------- fetch_streamed_response

\* A chunk of a streamed response: delta.content (None or a text) and
\* delta.tool_calls (None, or the list of the chunk's tool-call fragments,
\* each an object of the client library).
Chunk(content, tool_calls) == [content |-> content, tool_calls |-> tool_calls]

Fragments(n) == VList([i \in 1 .. n |-> Item(<<>>, VObj("ChoiceDeltaToolCall"))])

\* delta.tool_calls of a chunk that carries one fragment of a tool call: the
\* list of one ChoiceDeltaToolCall, whose id and function name are None in a
\* continuation fragment.
Fragment(index, id, name, arguments) ==
    VList(<<Item(<<>>,
        [t |-> "object", s |-> <<"ChoiceDeltaToolCall">>, n |-> index,
         d |-> <<Item(<<"id">>, id),
                 Item(<<"function">>,
                      VDict(<<Item(<<"name">>, name),
                              Item(<<"arguments">>, VStr(arguments))>>))>>])>>)

Truthy(v) ==
    CASE v.t = "none" -> FALSE
      [] v.t = "int"  -> v.n # 0
      [] v.t = "str"  -> v.s # <<>>
      [] v.t \in {"dict", "list"} -> v.d # <<>>
      [] OTHER -> TRUE

\* The accumulator of the loop over the chunks.
Decoding(content, collected, current, exc) ==
    [content |-> content, collected |-> collected, current |-> current, exc |-> exc]

\* v[k1][k2]
Subscript2(v, k1, k2) ==
    IF v.t = "dict" /\ HasKey(v, k1) THEN Subscript(Lookup(v, k1), k2) ELSE Subscript(v, k1)

Concatenated(current, ca, ta) ==
    IF ca.exc # "" THEN ca
    ELSE IF ta.exc # "" THEN ta
    ELSE IF ca.val.t # "str" \/ ta.val.t # "str"
         THEN Raise("TypeError", <<"unsupported", "operand", "type", "(", "s", ")">>)
    ELSE Ok(VDict(DictSet(current.d, <<"function">>,
              VDict(DictSet(Lookup(current, <<"function">>).d, <<"arguments">>,
                            VStr(ca.val.s \o ta.val.s))))))

\* current_tool_call["function"]["arguments"] += tool_call["function"]["arguments"]
AppendArguments(current, tool_call) ==
    Concatenated(current, Subscript2(current, <<"function">>, <<"arguments">>),
                 Subscript2(tool_call, <<"function">>, <<"arguments">>))

\* Grown as it would be if the content of a chunk replaced what was
\* collected.
Replaced(content, delta) ==
    IF delta # None /\ delta[1] # <<>> THEN delta[1] ELSE content

\* content += chunk.choices[0].delta.content, when there is some
Grown(content, delta) ==
    IF delta # None /\ delta[1] # <<>> THEN content \o delta[1] ELSE content

\* Lines 665-666: the arguments of the current tool call have grown.
Continued(st, content, grown) ==
    IF grown.exc # "" THEN Decoding(content, st.collected, st.current, grown)
    ELSE Decoding(content, st.collected, Some(grown.val), st.exc)

\* Lines 662-664: the current tool call is closed and the next one begins.
Closed(st, content, tool_call, m) ==
    IF m.exc # "" THEN Decoding(content, st.collected, st.current, m)
    ELSE Decoding(content, Append(st.collected, m.val), Some(tool_call), st.exc)

\* Lines 659-669 on a chunk that carries tool calls, id being tool_call["id"].
ToolCallChunk(st, content, tool_call, id) ==
    IF st.current = None THEN Decoding(content, st.collected, Some(tool_call), st.exc)
    ELSE IF id.exc # "" THEN Decoding(content, st.collected, st.current, id)
    ELSE IF id.val.t = "none" THEN Continued(st, content, AppendArguments(st.current[1], tool_call))
    ELSE Closed(st, content, tool_call, DictToMessage(st.current[1]))

\* One iteration of the loop body, lines 655-669.
DecodeChunk(st, chunk) ==
    IF st.exc.exc # "" THEN st
    ELSE IF ~Truthy(chunk.tool_calls)
    THEN Decoding(Grown(st.content, chunk.content), st.collected, st.current, st.exc)
    ELSE ToolCallChunk(st, Grown(st.content, chunk.content), chunk.tool_calls,
                       Subscript(chunk.tool_calls, <<"id">>))

RECURSIVE DecodeChunks(_, _)
DecodeChunks(st, chunks) ==
    IF chunks = <<>> THEN st
    ELSE DecodeChunks(DecodeChunk(st, Head(chunks)), Tail(chunks))

IsStr(v, k) == HasKey(v, k) /\ Lookup(v, k).t = "str"

\* What AssistantMessage accepts as an element of tool_calls: a dict with
\* the fields of ToolCall.
ValidToolCall(v) ==
    /\ v.t = "dict"
    /\ IsStr(v, <<"id">>) /\ IsStr(v, <<"type">>)
    /\ HasKey(v, <<"function">>)
    /\ IsStr(Lookup(v, <<"function">>), <<"name">>)
    /\ IsStr(Lookup(v, <<"function">>), <<"arguments">>)

ToolCallOf(v) ==
    [id |-> Lookup(v, <<"id">>).s, type |-> Lookup(v, <<"type">>).s,
     function |-> [name |-> Lookup(Lookup(v, <<"function">>), <<"name">>).s,
                   arguments |-> Lookup(Lookup(v, <<"function">>), <<"arguments">>).s]]

\* Lines 674-678: the AssistantMessage built from the content and the tool
\* calls collected, which pydantic validates.
Streamed(content, collected) ==
    IF \E i \in 1 .. Len(collected) : ~ValidToolCall(collected[i])
    THEN [exc |-> "ValidationError", message |-> AssistantMessage(None, <<>>)]
    ELSE [exc |-> "",
          message |-> AssistantMessage(Some(content),
                         [i \in 1 .. Len(collected) |-> ToolCallOf(collected[i])])]

\* Lines 671-678 after the loop, st being what the loop left.
AfterChunks(st) ==
    IF st.exc.exc # "" THEN [exc |-> st.exc.exc, message |-> AssistantMessage(None, <<>>)]
    ELSE Streamed(st.content,
                  IF st.current # None THEN Append(st.collected, st.current[1])
                  ELSE st.collected)

\* fetch_streamed_response over the chunks the transport delivers: the
\* exception raised, or the AssistantMessage returned.
FetchStreamedResponse(chunks) ==
    AfterChunks(DecodeChunks(Decoding(<<>>, <<>>, None, Ok(VNone)), chunks))

\* --------------------------------------------------------- the model endpoint

\* The tools chat_loop offers, by name.
Tools == <<(<<"fetch_wikipedia_content">>), (<<"fetch_real_authoritative_text">>),
           SubtractName>>

Date(y, m, d) ==
    VDict(<<Item(<<"year">>, y), Item(<<"month">>, m), Item(<<"day">>, d)>>)

Dates(later, earlier) ==
    VDict(<<Item(<<"later_date">>, later), Item(<<"earlier_date">>, earlier)>>)

SearchArgs(q) == JsonDumps(VDict(<<Item(<<"search_query">>, VStr(q))>>))

\* The tool calls a response of the model may carry, each a name and an
\* argument text: well-formed calls, calls without a required key, with
\* arguments that are no JSON or no mapping, with a query that is a list,
\* with a null date field, with a date given as text, with the dates in
\* reverse order, with a month 13, to no known tool.
Call ==
    [WikiPython   |-> [name |-> <<"fetch_wikipedia_content">>,
                       arguments |-> SearchArgs(<<"Python">>)],
     WikiTesla    |-> [name |-> <<"fetch_real_authoritative_text">>,
                       arguments |-> SearchArgs(<<"Nikola", "Tesla">>)],
     WikiNoQuery  |-> [name |-> <<"fetch_wikipedia_content">>,
                       arguments |-> JsonDumps(VDict(<<Item(<<"query">>, VStr(<<"Python">>))>>))],
     WikiBadJson  |-> [name |-> <<"fetch_wikipedia_content">>,
                       arguments |-> <<"{", Q, "search_query", Q, ":">>],
     WikiListArgs |-> [name |-> <<"fetch_real_authoritative_text">>,
                       arguments |-> JsonDumps(VList(<<Item(<<>>, VStr(<<"Python">>))>>))],
     WikiListQuery |-> [name |-> <<"fetch_wikipedia_content">>,
                       arguments |-> JsonDumps(VDict(<<Item(<<"search_query">>,
                                         VList(<<Item(<<>>, VStr(<<"Python">>))>>))>>))],
     UnknownTool  |-> [name |-> <<"does_not_exist">>, arguments |-> JsonDumps(VDict(<<>>))],
     SubtractOk   |-> [name |-> SubtractName,
                       arguments |-> JsonDumps(Dates(Date(VInt(2023), VInt(8), VInt(15)),
                                                     Date(VInt(2000), VInt(5), VInt(10))))],
     SubtractNoEarlier |-> [name |-> SubtractName,
                       arguments |-> JsonDumps(VDict(<<Item(<<"later_date">>,
                                         Date(VInt(2023), VInt(8), VInt(15)))>>))],
     SubtractNull |-> [name |-> SubtractName,
                       arguments |-> JsonDumps(Dates(Date(VInt(2023), VInt(8), VInt(15)),
                                                     Date(VNone, VInt(5), VInt(10))))],
     SubtractIsoString |-> [name |-> SubtractName,
                       arguments |-> JsonDumps(Dates(VStr(<<"2023", "-", "08", "-", "15">>),
                                                     Date(VInt(2000), VInt(5), VInt(10))))],
     SubtractReversed |-> [name |-> SubtractName,
                       arguments |-> JsonDumps(Dates(Date(VInt(2000), VInt(5), VInt(10)),
                                                     Date(VInt(2023), VInt(8), VInt(15))))],
     SubtractBadMonth |-> [name |-> SubtractName,
                       arguments |-> JsonDumps(Dates(Date(VInt(2023), VInt(13), VInt(15)),
                                                     Date(VInt(2000), VInt(5), VInt(10))))]]

\* The lists of tool calls the model requests in one response; the last
\* one makes a round of six messages, two of which exceed the limiter.
ToolCallScripts ==
    { <<Call.WikiPython>>,
      <<Call.WikiPython, Call.SubtractOk>>,
      <<Call.UnknownTool, Call.WikiNoQuery>>,
      <<Call.SubtractNoEarlier, Call.SubtractNull, Call.WikiTesla>>,
      <<Call.WikiBadJson, Call.WikiPython>>,
      <<Call.SubtractOk, Call.WikiListArgs>>,
      <<Call.WikiListQuery>>,
      <<Call.SubtractIsoString>>,
      <<Call.SubtractReversed, Call.SubtractBadMonth>>,
      <<Call.UnknownTool, Call.UnknownTool, Call.UnknownTool, Call.UnknownTool,
        Call.UnknownTool>> }

\* The ids of the tool calls of one response are distinct.
WithIds(script) ==
    [i \in 1 .. Len(script) |->
        ToolCall(<<"call_" \o ToString(i)>>, script[i].name, script[i].arguments)]

\* choices[0].message of a complete (non-streamed) response.
Completion(content, tool_calls) == [content |-> content, tool_calls |-> tool_calls]

NonStreamedResponses ==
    {Completion(Some(<<"Hi", "there">>), <<>>)}
    \cup {Completion(None, WithIds(sc)) : sc \in ToolCallScripts}

\* Streams that carry tool calls in fragments, one fragment a chunk: five
\* fragments of three calls; two calls that both carry index 0; one call in
\* a start and a continuation fragment, after a chunk of content.
FragmentStreams ==
    { <<Chunk(None, Fragment(0, VStr(<<"call_1">>), VStr(<<"fetch_wikipedia_content">>),
                             <<"{", Q, "search_query", Q, ":">>)),
        Chunk(None, Fragment(0, VNone, VNone, <<Q, "Python", Q, "}">>)),
        Chunk(None, Fragment(1, VStr(<<"call_2">>), VStr(SubtractName), <<"{">>)),
        Chunk(None, Fragment(1, VNone, VNone, <<"}">>)),
        Chunk(None, Fragment(2, VStr(<<"call_3">>), VStr(<<"does_not_exist">>),
                             <<"{", "}">>))>>,
      <<Chunk(None, Fragment(0, VStr(<<"call_1">>), VStr(<<"fetch_wikipedia_content">>),
                             SearchArgs(<<"Python">>))),
        Chunk(None, Fragment(0, VStr(<<"call_2">>), VStr(<<"fetch_wikipedia_content">>),
                             SearchArgs(<<"Nikola", "Tesla">>)))>>,
      <<Chunk(Some(<<"Let", "me", "look">>), VNone),
        Chunk(None, Fragment(0, VStr(<<"call_1">>), VStr(<<"fetch_wikipedia_content">>),
                             <<"{", Q, "search_query", Q, ":">>)),
        Chunk(Some(<<"it", "up">>), Fragment(0, VNone, VNone, <<Q, "Python", Q, "}">>))>> }

\* The chunk sequences of a streamed response.
StreamedResponses ==
    { <<Chunk(Some(<<"Hi">>), VNone), Chunk(Some(<<"there">>), VNone)>>,
      <<Chunk(Some(<<>>), VNone)>>,
      <<Chunk(None, Fragments(1))>>,
      <<Chunk(Some(<<"Let", "me", "look">>), VNone),
        Chunk(None, Fragments(1)), Chunk(None, Fragments(1))>> }
    \cup FragmentStreams

\* The number of chunks of a stream that carry tool-call fragments.
ToolCallChunks(chunks) == Cardinality({i \in 1 .. Len(chunks) : Truthy(chunks[i].tool_calls)})

\* What ask holds after a request: a ChatCompletion of the client library,
\* or the AssistantMessage that fetch_streamed_response built.
Response(kind, message) == [kind |-> kind, message |-> message]

\* has_tool_calls(response): both disjuncts are guarded by the class of the
\* response, so a response of any other class has none.
HasToolCalls(response) ==
    \/ response.kind = "ChatCompletionChunk" /\ response.message.tool_calls # <<>>
    \/ response.kind = "ChatCompletion" /\ response.message.tool_calls # <<>>

\* ------------------------------------------------------------- Conversation

MessageId(now, content) ==
    <<ToString(now), "hash">> \o (IF content = None THEN <<"None">> ELSE content[1])

\* The message as add_message leaves it: an id when it had none, the
\* previous message's id as parent when there is a previous message.
Stamped(messages, message, now) ==
    LET a == IF message.message_id = None
             THEN [message EXCEPT !.message_id = Some(MessageId(now, message.content))]
             ELSE message
    IN IF messages # <<>>
       THEN [a EXCEPT !.parent_message_id = messages[Len(messages)].message_id]
       ELSE a

\* Conversation.add_message: a copy of the stamped message is appended.
AddMessage(messages, message, now) == Append(messages, Stamped(messages, message, now))

RECURSIVE AddMessages(_, _, _)
AddMessages(messages, new, now) ==
    IF new = <<>> THEN messages
    ELSE AddMessages(AddMessage(messages, Head(new), now), Tail(new), now)

SYSTEM_PROMPT == <<"You", "are", "an", "assistant", "that", "can", "retrieve",
                   "Wikipedia", "articles", ".">>

\* The limiter of chat_loop: at most this many new messages are stored.
Limiter == 10

\* -------------------------------------------------------------------- state

VARIABLES
    pc,        \* where the program is: start, idle, request, dispatch,
               \* returned, raised, exited
    lines,     \* the lines standard input still holds
    now,       \* the clock, in seconds
    store,     \* Conversation.messages
    heap,      \* the list objects of the turn: heap[r] is the content of list r
    stack,     \* the frames of ask, outermost first
    pending,   \* the tool calls of the response being dispatched, and the next
    cache,     \* the files of the cache directory
    requests,  \* the model requests of the turn, each with what came back
    executed,  \* the executor invocations of the turn: the executor, the id of
               \* the tool call and the frame of ask that dispatched it
    remote,    \* the number of remote Wikipedia requests made
    saved,     \* the history files of models/conversation.py: the text of
               \* default_history.json and of the file save_history wrote
    spin       \* the Spinner objects of a turn and their threads, with the
               \* position of the main thread in ask

vars == <<pc, lines, now, store, heap, stack, pending, cache, requests, executed, remote,
          saved, spin>>

\* A frame of ask: arg is the list the caller passed, snap its content at
\* the call, local the list bound to `messages` after line 712.
Frame(arg, snap, local, budget, tools) ==
    [arg |-> arg, snap |-> snap, local |-> local, budget |-> budget, tools |-> tools]

Top == stack[Len(stack)]

\* A model request: the transport, the tools sent (None when omitted), the
\* messages sent, the budget of the frame that sent it, and the number of
\* tool calls that came back (-1 when the request raised).
Request(stream, tools, messages, budget, calls) ==
    [stream |-> stream, tools |-> tools, messages |-> messages,
     budget |-> budget, calls |-> calls]

\* CopyTarget as it would be without line 712: ask works on the caller's list.
SameList(h, ref) == ref

\* The list that ask works on after `messages = copy.deepcopy(messages)`:
\* a new list object.
CopyTarget(h, ref) == Len(h) + 1

\* Entering ask(messages = list ref, ...): the heap and the stack after
\* line 712.
AskHeap(h, ref) ==
    IF CopyTarget(h, ref) > Len(h) THEN Append(h, h[ref]) ELSE h

AskStack(h, st, ref, budget, tools) ==
    Append(st, Frame(ref, h[ref], CopyTarget(h, ref), budget, tools))

\* NextBudget as it would be if the recursive call got the budget unchanged.
SameBudget(tool_iterations) == tool_iterations

\* The budget ask passes to its recursive call.
NextBudget(tool_iterations) == tool_iterations - 1

\* Whether ask sends the tools (and uses the non-streamed transport).
OffersTools(tool_iterations, tools) == tool_iterations > 0 /\ Len(tools) > 0

\* The message handle_nontool_response stores for a response: a
\* ChatCompletion is converted with dict_to_message, a message is kept.
ResponseMessage(response) ==
    IF response.kind \in {"ChatCompletion", "ChatCompletionChunk"}
    THEN AssistantMessage(response.message.content, response.message.tool_calls)
    ELSE response.message

\* HandleNontoolResponse as it would be if it returned the response alone.
LastMessageOnly(messages, response) == <<ResponseMessage(response)>>

\* HandleNontoolResponse as it would be if the response were put first.
Prepended(messages, response) == <<ResponseMessage(response)>> \o messages

\* handle_nontool_response: the response is appended to the list.
HandleNontoolResponse(messages, response) == Append(messages, ResponseMessage(response))

\* The assistant message ask stores before it dispatches the tool calls.
ToolCallsMessage(message) == AssistantMessage(message.content, message.tool_calls)

QuitLine == <<"quit">>

\* s.lower() on the words the input lines hold.
LowerWord(w) ==
    CASE w \in {"Quit", "QUIT"} -> "quit"
      [] w = "Hello"            -> "hello"
      [] OTHER                  -> w

Lower(s) == [i \in 1 .. Len(s) |-> LowerWord(s[i])]

\* chat_loop, line 847: the line read, stripped of surrounding whitespace.
UserInput(line) == Strip(line)

\* IsQuit as it would be if only the line quit itself ended the session.
IsLiterallyQuit(line) == line = QuitLine

\* chat_loop, line 848: the stripped line, in lower case, is quit.
IsQuit(line) == Lower(UserInput(line)) = QuitLine

\* The lines of standard input: a message with a trailing blank and quit;
\* quit at once; quit in another spelling, after a blank.
InputScripts ==
    { <<(<<"Hello", " ">>), QuitLine>>, <<QuitLine>>, <<(<<" ", "Quit">>)>> }

\* The cache directory at the start of the process: empty, holding the result
\* of an earlier lookup, or holding a file that is no JSON.
InitialCaches ==
    { {},
      {[key |-> VStr(<<"Python">>),
        text |-> JsonDumps(SuccessResult(<<"Python", "is", "a", "language", ".">>,
                                         <<"Python">>))]},
      {[key |-> VStr(<<"Nikola", "Tesla">>), text |-> <<"{", Q, "status">>]} }

\* No history file exists.
NoFiles == [default |-> None, named |-> None]

\* No Spinner has been made and ask has not been called.
NoSpin == [at |-> "idle", budget |-> 0, tools |-> FALSE, calls |-> 0,
           fetched |-> "nothing", got |-> "nothing", threads |-> <<>>]

Init ==
    /\ pc = "start"
    /\ lines \in InputScripts
    /\ now = 0
    /\ store = <<>>
    /\ heap = <<>>
    /\ stack = <<>>
    /\ pending = [calls |-> <<>>, i |-> 1]
    /\ cache \in InitialCaches
    /\ requests = <<>>
    /\ executed = <<>>
    /\ remote = 0
    /\ saved = NoFiles
    /\ spin = NoSpin

\* chat_loop, line 836: the system message is stored first.
ChatLoopStart ==
    /\ pc = "start"
    /\ store' = AddMessage(store, SystemMessage(SYSTEM_PROMPT), now)
    /\ pc' = "idle"
    /\ UNCHANGED <<lines, now, heap, stack, pending, cache, requests, executed, remote, saved, spin>>

\* chat_loop, lines 847-849: a line that is quit once stripped and put in
\* lower case ends the session.
ChatLoopQuit ==
    /\ pc = "idle"
    /\ lines # <<>>
    /\ IsQuit(Head(lines))
    /\ pc' = "exited"
    /\ lines' = Tail(lines)
    /\ UNCHANGED <<now, store, heap, stack, pending, cache, requests, executed, remote, saved, spin>>

\* chat_loop, lines 851-860: any other line is stored as a user message, the
\* history is copied out of the store and ask is called with it.  chat_loop
\* passes three tools and a budget of 4; other callers of ask pass other
\* budgets and tool lists, so both are drawn here.
ChatLoopAsk ==
    /\ pc = "idle"
    /\ lines # <<>>
    /\ ~IsQuit(Head(lines))
    /\ store' = AddMessage(store, UserMessage(UserInput(Head(lines))), now + 1)
    /\ \E budget \in 0 .. MaxBudget, tools \in {Tools, <<>>} :
         /\ heap' = AskHeap(Append(heap, store'), Len(heap) + 1)
         /\ stack' = AskStack(Append(heap, store'), <<>>, Len(heap) + 1, budget, tools)
    /\ now' = now + 1
    /\ lines' = Tail(lines)
    /\ pc' = "request"
    /\ requests' = <<>>
    /\ executed' = <<>>
    /\ UNCHANGED <<pending, cache, remote, saved, spin>>

\* What ask does with the response of a request (lines 718-756, 761-795).
\* In the streamed branch the response is a message, which has no
\* `choices`: reading its tool calls there raises.
AfterResponse(response) ==
    IF HasToolCalls(response)
    THEN IF response.kind = "ChatCompletion"
         THEN /\ heap' = [heap EXCEPT ![Top.local] =
                              Append(@, ToolCallsMessage(response.message))]
              /\ pending' = [calls |-> response.message.tool_calls, i |-> 1]
              /\ pc' = "dispatch"
         ELSE /\ pc' = "raised"
              /\ UNCHANGED <<heap, pending>>
    ELSE /\ heap' = [heap EXCEPT ![Top.local] = HandleNontoolResponse(@, response)]
         /\ pc' = "returned"
         /\ UNCHANGED pending

\* ask, lines 714-756: a request with the tools, not streamed.
AskWithTools ==
    /\ pc = "request"
    /\ OffersTools(Top.budget, Top.tools)
    /\ \/ /\ requests' = Append(requests,
                Request(FALSE, Some(Top.tools), heap[Top.local], Top.budget, -1))
          /\ pc' = "raised"
          /\ UNCHANGED <<heap, pending>>
       \/ \E r \in NonStreamedResponses :
            /\ requests' = Append(requests,
                  Request(FALSE, Some(Top.tools), heap[Top.local], Top.budget,
                          Len(r.tool_calls)))
            /\ AfterResponse(Response("ChatCompletion", r))
    /\ UNCHANGED <<lines, now, store, stack, cache, executed, remote, saved, spin>>

\* ask, lines 758-795 on what fetch_streamed_response did: its exception
\* ends ask, its message is the response.
AfterStream(decoded) ==
    IF decoded.exc # ""
    THEN /\ pc' = "raised"
         /\ UNCHANGED <<heap, pending>>
    ELSE AfterResponse(Response("AssistantMessage", decoded.message))

\* ask, lines 757-795: a request without tools, streamed and decoded.
AskStreamed ==
    /\ pc = "request"
    /\ ~OffersTools(Top.budget, Top.tools)
    /\ \/ /\ requests' = Append(requests,
                Request(TRUE, None, heap[Top.local], Top.budget, -1))
          /\ pc' = "raised"
          /\ UNCHANGED <<heap, pending>>
       \/ \E chunks \in StreamedResponses :
            /\ requests' = Append(requests,
                  Request(TRUE, None, heap[Top.local], Top.budget,
                          ToolCallChunks(chunks)))
            /\ AfterStream(FetchStreamedResponse(chunks))
    /\ UNCHANGED <<lines, now, store, stack, cache, executed, remote, saved, spin>>

\* ask, line 745 on what parse_tool_call(call) did: the messages it
\* returned are appended; an exception that escaped it ends ask.
Dispatched(id, r) ==
    /\ cache' = r.cache
    /\ remote' = remote + r.remote
    /\ executed' = executed \o
          [k \in 1 .. Len(r.executed) |->
              [name |-> r.executed[k], id |-> id, frame |-> Len(stack)]]
    /\ IF r.exc # ""
       THEN /\ pc' = "raised"
            /\ UNCHANGED <<heap, pending>>
       ELSE /\ heap' = [heap EXCEPT ![Top.local] = @ \o r.messages]
            /\ pending' = [pending EXCEPT !.i = @ + 1]
            /\ pc' = "dispatch"

\* ask, lines 744-745: the next tool call of the response is handed to
\* parse_tool_call.
AskDispatch ==
    /\ pc = "dispatch"
    /\ pending.i <= Len(pending.calls)
    /\ \E net \in NetOutcomes :
         Dispatched(pending.calls[pending.i].id,
                    ParseToolCall(pending.calls[pending.i], cache, net))
    /\ UNCHANGED <<lines, now, store, stack, requests, saved, spin>>

\* ask, lines 747-752: after the last tool call ask calls itself.
AskRecurse ==
    /\ pc = "dispatch"
    /\ pending.i > Len(pending.calls)
    /\ heap' = AskHeap(heap, Top.local)
    /\ stack' = AskStack(heap, stack, Top.local, NextBudget(Top.budget), Top.tools)
    /\ pc' = "request"
    /\ UNCHANGED <<lines, now, store, pending, cache, requests, executed, remote, saved, spin>>

\* What ask returned, and the messages chat_loop takes as new (line 864).
Returned == heap[Top.local]

NewMessages == SubSeq(Returned, Len(heap[stack[1].arg]) + 1, Len(Returned))

\* chat_loop, lines 864-875: the new messages are stored, the limiter
\* stopping after Limiter of them.
ChatLoopCollect ==
    /\ pc = "returned"
    /\ store' = AddMessages(store,
                    SubSeq(NewMessages, 1,
                           IF Len(NewMessages) > Limiter THEN Limiter ELSE Len(NewMessages)),
                    now)
    /\ pc' = "idle"
    /\ UNCHANGED <<lines, now, heap, stack, pending, cache, requests, executed, remote, saved, spin>>

\* ChatLoopFail as it would be if chat_loop stored what ask had gathered
\* before the exception.
ChatLoopFailStoring ==
    /\ pc = "raised"
    /\ store' = AddMessages(store,
                    SubSeq(Returned, Len(heap[stack[1].arg]) + 1, Len(Returned)), now)
    /\ pc' = "exited"
    /\ UNCHANGED <<lines, now, heap, stack, pending, cache, requests, executed, remote, saved, spin>>

\* ChatLoopFail as it would be if chat_loop went on to the next line of
\* input after the report.
ChatLoopContinue ==
    /\ pc = "raised"
    /\ pc' = "idle"
    /\ UNCHANGED <<lines, now, store, heap, stack, pending, cache, requests, executed, remote, saved, spin>>

\* chat_loop, lines 877-891: an exception out of ask is reported and the
\* process exits.
ChatLoopFail ==
    /\ pc = "raised"
    /\ pc' = "exited"
    /\ UNCHANGED <<lines, now, store, heap, stack, pending, cache, requests, executed, remote, saved, spin>>

Next ==
    \/ ChatLoopStart
    \/ ChatLoopQuit
    \/ ChatLoopAsk
    \/ AskWithTools
    \/ AskStreamed
    \/ AskDispatch
    \/ AskRecurse
    \/ ChatLoopCollect
    \/ ChatLoopFail

Spec == Init /\ [][Next]_vars

\* ------------------------------------------- models/conversation.py

\* Largest number of add_message calls on a Conversation.
MaxHistory == 3

\* What the serializer writes for a message held in `messages: list[Message]`:
\* the fields of Message that are not excluded (message_id and
\* parent_message_id are); the fields of the subclasses are not fields of
\* the declared type.
MessageDict(m) ==
    VDict(<<Item(<<"role">>, VStr(m.role)),
            Item(<<"content">>, IF m.content = None THEN VNone ELSE VStr(m.content[1])),
            Item(<<"recipient">>, VNone)>>)

\* Conversation.to_json
ToJson(messages) ==
    JsonDumps(VDict(<<Item(<<"messages">>,
        VList([i \in 1 .. Len(messages) |-> Item(<<>>, MessageDict(messages[i]))]))>>))

\* What validation makes of an element of "messages": a Message, the
\* declared type, with no id.
ParsedMessage(v) ==
    Msg("Message", Lookup(v, <<"role">>).s,
        IF Lookup(v, <<"content">>).t = "str" THEN Some(Lookup(v, <<"content">>).s) ELSE None,
        <<>>, None)

ValidMessage(v) ==
    /\ IsStr(v, <<"role">>)
    /\ HasKey(v, <<"content">>) => Lookup(v, <<"content">>).t \in {"str", "none"}

\* The Conversation validated from a decoded JSON value.
Validated(r) ==
    IF r.exc # "" THEN [exc |-> "ValidationError", messages |-> <<>>]
    ELSE IF ~(HasKey(r.val, <<"messages">>) /\ Lookup(r.val, <<"messages">>).t = "list")
    THEN [exc |-> "ValidationError", messages |-> <<>>]
    ELSE IF \E i \in 1 .. Len(Lookup(r.val, <<"messages">>).d) :
               ~ValidMessage(Lookup(r.val, <<"messages">>).d[i].v)
    THEN [exc |-> "ValidationError", messages |-> <<>>]
    ELSE [exc |-> "",
          messages |-> [i \in 1 .. Len(Lookup(r.val, <<"messages">>).d) |->
                           ParsedMessage(Lookup(r.val, <<"messages">>).d[i].v)]]

\* Conversation.from_json
FromJson(text) == Validated(JsonLoads(text))

\* The messages clear_history keeps: the instances of SystemMessage.
ClearHistory(messages) == SelectSeq(messages, LAMBDA m : m.cls = "SystemMessage")

\* The messages passed to add_message.
Added ==
    { SystemMessage(SYSTEM_PROMPT),
      UserMessage(<<"Hello">>),
      AssistantMessage(Some(<<"Hi", "there">>), <<>>),
      ToolMessage(Some("tool"), <<"{", "}">>, <<"call_1">>).val }

\* What the driver holds, which no method of Conversation touches.
driver == <<pc, lines, stack, pending, cache, requests, executed, remote, spin>>

\* An object the caller of the Conversation holds, a message or a list of
\* messages: its value (the messages of the list, or the one message), and
\* which object it is: 0 for an object of its own,
\* k > 0 for the very object stored at messages[k], -1 for the list
\* `messages` itself.
Held(val, at, isList) == [val |-> val, at |-> at, isList |-> isList]

\* DeepCopy as it would be if the object were used without a copy.
NoCopy(at) == at

\* Which object copy.deepcopy(x) is, x being the object `at`: a new one.
DeepCopy(at) == 0

HistoryInit ==
    /\ pc = "history"
    /\ lines = <<>>
    /\ now = 0
    /\ store = <<>>
    /\ heap = <<>>
    /\ stack = <<>>
    /\ pending = [calls |-> <<>>, i |-> 1]
    /\ cache = {}
    /\ requests = <<>>
    /\ executed = <<>>
    /\ remote = 0
    /\ saved = NoFiles
    /\ spin = NoSpin

\* What the driver holds besides its own position.
rest == <<lines, stack, pending, cache, requests, executed, remote, spin>>

\* What the file system does to the write of the default history file: the
\* text is written, open() raises and the file stays as it was, or write()
\* raises after open() has emptied the file.
DiskOutcomes == {"written", "open_raises", "write_raises"}

\* The default history file after save_default_history.
DefaultFile(messages, disk) ==
    CASE disk = "written"      -> Some(ToJson(messages))
      [] disk = "open_raises"  -> saved.default
      [] disk = "write_raises" -> Some(<<>>)

\* save_default_history after the messages have become what they are; the
\* exception of a failed write leaves the method that called it.
SaveDefault(messages) ==
    \E disk \in DiskOutcomes :
        /\ saved' = [saved EXCEPT !.default = DefaultFile(messages, disk)]
        /\ pc' = IF disk = "written" THEN pc ELSE "failed"

\* Conversation.add_message
ConversationAdd ==
    /\ pc = "history"
    /\ now < MaxHistory
    /\ \E m \in Added : store' = AddMessage(store, m, now + 1)
    /\ now' = now + 1
    /\ heap' = <<Held(<<store'[Len(store')]>>, DeepCopy(Len(store')), FALSE)>>
    /\ SaveDefault(store')
    /\ UNCHANGED rest

\* Conversation.get_messages: the caller gets a list.
ConversationGet ==
    /\ pc = "history"
    /\ heap' = <<Held(store, DeepCopy(-1), TRUE)>>
    /\ UNCHANGED <<now, store, saved, driver>>

\* What the caller makes of an object it holds: a message gets another
\* content, a list loses its messages.
Edited(held) == IF held.isList THEN <<>>
                ELSE <<[held.val[1] EXCEPT !.content = Some(<<"edited">>)]>>

\* The caller changes the object it holds in place; the store changes with
\* it when the object is one of the store's.
CallerEdits ==
    /\ pc = "history"
    /\ heap # <<>>
    /\ heap' = <<Held(Edited(heap[1]), heap[1].at, heap[1].isList)>>
    /\ store' = CASE heap[1].at = 0  -> store
                  [] heap[1].at = -1 -> Edited(heap[1])
                  [] OTHER -> [store EXCEPT ![heap[1].at] = Edited(heap[1])[1]]
    /\ UNCHANGED <<now, saved, driver>>

\* Conversation.clear_history
ConversationClear ==
    /\ pc = "history"
    /\ store' = ClearHistory(store)
    /\ SaveDefault(store')
    /\ UNCHANGED <<now, heap, rest>>

\* Conversation.save_history
ConversationSave ==
    /\ pc = "history"
    /\ saved' = [saved EXCEPT !.named = Some(ToJson(store))]
    /\ UNCHANGED <<now, store, heap, driver>>

\* load_history on what from_json made of the text of the file.
Loaded(r) ==
    /\ r.exc = ""
    /\ store' = r.messages
    /\ SaveDefault(r.messages)

\* Conversation.load_history of a file that exists.
ConversationLoad ==
    /\ pc = "history"
    /\ \E f \in {"default", "named"} : saved[f] # None /\ Loaded(FromJson(saved[f][1]))
    /\ UNCHANGED <<now, heap, rest>>

HistoryNext ==
    \/ ConversationAdd
    \/ ConversationClear
    \/ ConversationSave
    \/ ConversationLoad
    \/ ConversationGet
    \/ CallerEdits

HistorySpec == HistoryInit /\ [][HistoryNext]_vars

\* ------------------------------------------------------- the driver's claims

IsPrefix(s, t) == Len(s) <= Len(t) /\ SubSeq(t, 1, Len(s)) = s

Last(s) == s[Len(s)]

\* ask has ended: it returned, or an exception left it.
AskEnded == pc \in {"returned", "raised"}

\* ask is running or has just ended.
InAsk == pc \in {"request", "dispatch", "returned", "raised"}

\* Every model request of the turn came back requesting a tool call.
AlwaysToolCalls == \A i \in 1 .. Len(requests) : requests[i].calls >= 1

\* C1: ask called with budget N and a non-empty tool list, against an endpoint
\* whose every response requests a tool call, makes N + 1 requests in N + 1
\* frames (it recurses exactly N times) and then returns.
C1_RecursesBudgetTimesThenReturns ==
    (AskEnded /\ stack[1].tools # <<>> /\ AlwaysToolCalls)
        => /\ pc = "returned"
           /\ Len(requests) = stack[1].budget + 1
           /\ Len(stack) = stack[1].budget + 1

\* The step hands one tool call to parse_tool_call and appends exactly one
\* tool-role message, which answers that call.
AnswersNextCall ==
    /\ pending.i <= Len(pending.calls)
    /\ pc' = "dispatch"
    /\ pending'.i = pending.i + 1
    /\ Len(heap'[Top.local]) = Len(heap[Top.local]) + 1
    /\ IsPrefix(heap[Top.local], heap'[Top.local])
    /\ Last(heap'[Top.local]).role = Some("tool")
    /\ Last(heap'[Top.local]).tool_call_id = Some(pending.calls[pending.i].id)

\* The step is the recursive call: one more frame, whose budget is one less
\* and whose list holds what the round appended.
RecursesWithBudgetLess ==
    /\ pending.i > Len(pending.calls)
    /\ pc' = "request"
    /\ Len(stack') = Len(stack) + 1
    /\ Last(stack').budget = Top.budget - 1
    /\ heap'[Last(stack').local] = heap[Top.local]

\* C2: in a dispatch round the assistant message is appended first, then each
\* of the k tool calls, in request order, contributes exactly one tool-role
\* message, and only then ask recurses with the budget reduced by 1.
C2_EachCallOneToolMessageThenRecurse ==
    [][pc = "dispatch" => AnswersNextCall \/ RecursesWithBudgetLess]_vars

\* C3: a request carries the tools iff the budget is > 0 and a tool is
\* registered; otherwise it is streamed without tools and, whatever came
\* back, ask returns with the response appended as one assistant message,
\* no tool executed and no recursion.
C3_ToolsIffBudgetElseStreamedAndReturns ==
    /\ \A i \in 1 .. Len(requests) :
          /\ (requests[i].tools # None)
                <=> (requests[i].budget > 0 /\ stack[1].tools # <<>>)
          /\ requests[i].tools = None => requests[i].stream
    /\ (AskEnded /\ Last(requests).tools = None /\ Last(requests).calls >= 0)
          => /\ pc = "returned"
             /\ Returned = Append(Last(requests).messages, Last(Returned))
             /\ Last(Returned).cls = "AssistantMessage"

\* The messages of the list that answer model requests, and the tool calls
\* the requests of the turn brought back.
RECURSIVE CallsOf(_)
CallsOf(reqs) ==
    IF reqs = <<>> THEN 0
    ELSE (IF Head(reqs).calls > 0 THEN Head(reqs).calls ELSE 0) + CallsOf(Tail(reqs))

\* C4: what ask returns is the input history, unchanged and in order,
\* followed by every message appended during the recursion: the list of every
\* frame and the messages of every request are prefixes of it, each request
\* is followed by the assistant message that answered it, and the messages
\* after the input are one per request and one per dispatched tool call.
C4_ReturnedExtendsInput ==
    pc = "returned" =>
        /\ IsPrefix(stack[1].snap, Returned)
        /\ \A j \in 1 .. Len(stack) : IsPrefix(heap[stack[j].local], Returned)
        /\ \A i \in 1 .. Len(requests) :
              /\ IsPrefix(requests[i].messages, Returned)
              /\ Returned[Len(requests[i].messages) + 1].cls = "AssistantMessage"
        /\ stack[1].snap \o NewMessages = Returned
        /\ Len(NewMessages) = Len(requests) + CallsOf(requests)

\* ask returned after at least one dispatch round.
C4_ReturnedAfterRounds ==
    /\ pc = "returned"
    /\ Len(stack) >= 2
    /\ Len(NewMessages) >= 3

\* C5: ask never mutates the list its caller passed, at any level of the
\* recursion, so while ask runs and after it returned or raised the caller's
\* list and the store it was copied from are what they were at the call.
C5_CallerHistoryUnchanged ==
    InAsk =>
        /\ \A j \in 1 .. Len(stack) : heap[stack[j].arg] = stack[j].snap
        /\ heap[stack[1].arg] = store

\* ask raised after it had appended messages to its own list.
C5_RaisedAfterAppending ==
    /\ pc = "raised"
    /\ Len(stack) >= 2
    /\ Len(heap[Top.local]) > Len(store)

\* ------------------------------------------------- the claims of the dispatch

\* parse_tool_call is about to be handed the next tool call of the response.
Dispatching == pc = "dispatch" /\ pending.i <= Len(pending.calls)

NextCall == pending.calls[pending.i]

\* The same in the first round of the turn, where the tool names and the
\* argument texts are varied beyond those of the responses.
FirstDispatching == Dispatching /\ Len(stack) = 1

\* The tool call that was dispatched last in the round under way.
Dispatching2 == pc = "dispatch" /\ pending.i > 1

LastCall == pending.calls[pending.i - 1]

Registered == WikiNames \cup {SubtractName}

\* {status: success, content, title} or {status: error, message}
ToolResultShaped(v) ==
    /\ v.t = "dict"
    /\ HasKey(v, <<"status">>)
    /\ \/ /\ Lookup(v, <<"status">>) = VStr(<<"success">>)
          /\ HasKey(v, <<"content">>)
          /\ HasKey(v, <<"title">>)
       \/ /\ Lookup(v, <<"status">>) = VStr(<<"error">>)
          /\ HasKey(v, <<"message">>)

\* decoded is a ToolResult with status error whose message holds the text.
ErrorHolding(decoded, text) ==
    /\ decoded.exc = ""
    /\ ToolResultShaped(decoded.val)
    /\ Lookup(decoded.val, <<"status">>) = VStr(<<"error">>)
    /\ Contains(Lookup(decoded.val, <<"message">>).s, text)

\* r is a normal return with exactly one tool-role message.
OneToolMessage(r) ==
    /\ r.exc = ""
    /\ Len(r.messages) = 1
    /\ r.messages[1].cls = "ToolMessage"
    /\ r.messages[1].role = Some("tool")

\* r is a normal return with one tool-role message whose content decodes to a
\* ToolResult-shaped value.
ReturnsToolResult(r) ==
    /\ OneToolMessage(r)
    /\ JsonLoads(r.messages[1].content[1]).exc = ""
    /\ ToolResultShaped(JsonLoads(r.messages[1].content[1]).val)

\* C6: parse_tool_call never lets an error escape: for every tool call
\* (any name, malformed or wrongly shaped arguments, an executor that raises)
\* it returns one tool-role message whose content decodes to a ToolResult.
C6_NoErrorEscapesParseToolCall ==
    Dispatching =>
        \A net \in NetOutcomes : ReturnsToolResult(ParseToolCall(NextCall, cache, net))

\* Names no executor is registered under, and argument texts that are JSON.
UnknownNames == {<<"does_not_exist">>, <<"fetch_wikipedia">>, <<"subtract_dates">>, <<>>}

JsonArguments ==
    {JsonDumps(VDict(<<>>)), SearchArgs(<<"Python">>), JsonDumps(VList(<<>>)),
     <<"null">>, <<"7">>, JsonDumps(VStr(<<"say", Q, "hi", Q>>))}

\* r declines the call: no executor ran, and the one tool message says that
\* the tool does not exist.
Declines(r) ==
    /\ OneToolMessage(r)
    /\ r.executed = <<>>
    /\ r.remote = 0
    /\ ErrorHolding(JsonLoads(r.messages[1].content[1]), <<"does", "not", "exist">>)

\* The last message of the list of the running ask is a tool message that
\* answers the call and holds an error with the text.
AnsweredWithError(call, text) ==
    /\ Last(heap[Top.local]).role = Some("tool")
    /\ Last(heap[Top.local]).tool_call_id = Some(call.id)
    /\ ErrorHolding(JsonLoads(Last(heap[Top.local]).content[1]), text)
    /\ \A k \in 1 .. Len(executed) :
          executed[k].frame = Len(stack) => executed[k].id # call.id

UnknownCall(call) ==
    /\ call.function.name \notin Registered
    /\ JsonLoads(call.function.arguments).exc = ""

\* C7: for a tool call whose name is not registered and whose arguments are
\* valid JSON, parse_tool_call invokes no executor and returns exactly one
\* tool-role message whose content decodes to {status: error, message
\* containing "does not exist"}.
C7_UnknownToolDeclined ==
    /\ FirstDispatching =>
          \A name \in UnknownNames, arguments \in JsonArguments, net \in NetOutcomes :
             Declines(ParseToolCall(ToolCall(NextCall.id, name, arguments), cache, net))
    /\ Dispatching2 /\ UnknownCall(LastCall)
          => AnsweredWithError(LastCall, <<"does", "not", "exist">>)

\* A call to an unregistered tool has been dispatched.
C7_UnknownToolDispatched ==
    /\ Dispatching2
    /\ UnknownCall(LastCall)
    /\ LastCall.function.name = <<"does_not_exist">>
    /\ Last(heap[Top.local]).cls = "ToolMessage"

RequiredKeys(name) ==
    IF name \in WikiNames THEN {<<"search_query">>}
    ELSE {<<"later_date">>, <<"earlier_date">>}

\* The decoded arguments are a mapping without the key.
Lacks(args, key) == args.exc = "" /\ args.val.t = "dict" /\ ~HasKey(args.val, key)

\* Argument texts that decode to mappings, complete and incomplete.
MappingArguments ==
    {JsonDumps(VDict(<<>>)), SearchArgs(<<"Python">>),
     Call.WikiNoQuery.arguments, Call.SubtractOk.arguments, Call.SubtractNoEarlier.arguments,
     JsonDumps(VDict(<<Item(<<"earlier_date">>, Date(VInt(2000), VInt(5), VInt(10)))>>)),
     JsonDumps(VDict(<<Item(<<"later_date">>, VNone)>>))}

\* r reports the missing key: no executor ran, and the one tool message is
\* an error whose message names the key.
ReportsMissing(r, key) ==
    /\ OneToolMessage(r)
    /\ r.executed = <<>>
    /\ r.remote = 0
    /\ ErrorHolding(JsonLoads(r.messages[1].content[1]), key)

\* C8: when the parsed arguments of a call to one of the three tools are a
\* mapping that lacks a required key, parse_tool_call does not invoke the
\* executor and returns exactly one tool-role message with status error
\* whose message names the missing key.
C8_MissingKeyReported ==
    /\ FirstDispatching =>
          \A name \in Registered, arguments \in MappingArguments, net \in NetOutcomes :
             \A key \in RequiredKeys(name) :
                Lacks(JsonLoads(arguments), key)
                   => ReportsMissing(ParseToolCall(ToolCall(NextCall.id, name, arguments),
                                                   cache, net), key)
    /\ Dispatching2 /\ LastCall.function.name \in Registered
          => \A key \in RequiredKeys(LastCall.function.name) :
                Lacks(JsonLoads(LastCall.function.arguments), key)
                   => AnsweredWithError(LastCall, key)

\* A call to a registered tool without a required key has been dispatched.
C8_IncompleteCallDispatched ==
    /\ Dispatching2
    /\ LastCall.function.name \in Registered
    /\ \E key \in RequiredKeys(LastCall.function.name) :
          Lacks(JsonLoads(LastCall.function.arguments), key)
    /\ Last(heap[Top.local]).cls = "ToolMessage"

\* What the executor of a registered tool returns for the decoded arguments.
ExecutorResult(name, args, files, net) ==
    IF name \in WikiNames
    THEN FetchWikipediaContent(Lookup(args, <<"search_query">>), files, net).out
    ELSE SubtractDatesReturnYears(Lookup(args, <<"later_date">>),
                                  Lookup(args, <<"earlier_date">>))

\* The message r returned for the call carries the id of the call, and its
\* content is JSON text: of the result the executor returned when one ran,
\* of an error result otherwise.
CarriesResult(r, call, files, net) ==
    r.exc = "" =>
        /\ OneToolMessage(r)
        /\ r.messages[1].tool_call_id = Some(call.id)
        /\ IF r.executed # <<>>
           THEN JsonLoads(r.messages[1].content[1])
                    = ExecutorResult(call.function.name,
                                     JsonLoads(call.function.arguments).val, files, net)
           ELSE ErrorHolding(JsonLoads(r.messages[1].content[1]), <<>>)

\* In the list every assistant message that requests k tool calls is
\* followed by k tool messages, the i-th of them answering the i-th call.
AnsweredInOrder(messages) ==
    \A a \in 1 .. Len(messages) :
        \A i \in 1 .. Len(messages[a].tool_calls) :
            /\ a + i <= Len(messages)
            /\ messages[a + i].role = Some("tool")
            /\ messages[a + i].tool_call_id = Some(messages[a].tool_calls[i].id)

\* C9: the tool message parse_tool_call produces for a tool call carries the
\* id of that call as tool_call_id and the JSON encoding of the ToolResult as
\* content, on the success path and on the error paths; so in the history
\* ask returns the i-th tool message after an assistant message answers the
\* i-th tool call of that message.
C9_ToolMessageAnswersItsCall ==
    /\ Dispatching =>
          \A net \in NetOutcomes :
             CarriesResult(ParseToolCall(NextCall, cache, net), NextCall, cache, net)
    /\ pc = "returned" => AnsweredInOrder(Returned)

\* ask returned a history in which a response with two tool calls was
\* answered, an executor having run.
C9_ReturnedAnsweredCalls ==
    /\ pc = "returned"
    /\ \E a \in 1 .. Len(Returned) : Len(Returned[a].tool_calls) >= 2
    /\ executed # <<>>

\* The arguments of the call are in error, or its tool is unknown: the text
\* is no JSON, no mapping, or a mapping that lacks a required key.
ArgumentError(call, args) ==
    \/ call.function.name \notin Registered
    \/ args.exc # ""
    \/ args.val.t # "dict"
    \/ \E key \in RequiredKeys(call.function.name) : ~HasKey(args.val, key)

\* The step answers the next call with an error result and goes on with the
\* round.
FeedsErrorBack ==
    /\ pc' = "dispatch"
    /\ pending'.i = pending.i + 1
    /\ heap'[Top.local] = Append(heap[Top.local], Last(heap'[Top.local]))
    /\ Last(heap'[Top.local]).role = Some("tool")
    /\ ErrorHolding(JsonLoads(Last(heap'[Top.local]).content[1]), <<>>)

\* C10: a tool-argument error or an unknown tool name does not abort the
\* turn: the error result is appended as a tool message and is part of the
\* list the next request is made with, at a budget reduced by 1.
C10_ArgumentErrorFedBack ==
    [][/\ Dispatching /\ ArgumentError(NextCall, JsonLoads(NextCall.function.arguments))
          => FeedsErrorBack
       /\ pc = "dispatch" /\ ~Dispatching => RecursesWithBudgetLess]_vars

\* ------------------------------------------------ the claims of the decoder

\* The fragment a chunk carries; whether it starts a tool call; its arguments.
FragmentOf(chunk) == chunk.tool_calls.d[1].v

Starts(chunk) == Lookup(FragmentOf(chunk), <<"id">>).t # "none"

FragmentArguments(chunk) ==
    Lookup(Lookup(FragmentOf(chunk), <<"function">>), <<"arguments">>).s

StartedCall(chunk) ==
    ToolCall(Lookup(FragmentOf(chunk), <<"id">>).s,
             Lookup(Lookup(FragmentOf(chunk), <<"function">>), <<"name">>).s,
             FragmentArguments(chunk))

\* The tool calls that the fragments of a stream spell: one for each start
\* fragment, in order, its arguments those of its fragments in order.
RECURSIVE Reassembled(_, _)
Reassembled(calls, chunks) ==
    IF chunks = <<>> THEN calls
    ELSE IF ~Truthy(Head(chunks).tool_calls) THEN Reassembled(calls, Tail(chunks))
    ELSE IF Starts(Head(chunks))
    THEN Reassembled(Append(calls, StartedCall(Head(chunks))), Tail(chunks))
    ELSE Reassembled([calls EXCEPT ![Len(calls)].function.arguments =
                                        @ \o FragmentArguments(Head(chunks))],
                     Tail(chunks))

\* The last request of the turn was streamed and fragments of tool calls
\* came back.
StreamedToolCalls ==
    requests # <<>> /\ Last(requests).stream /\ Last(requests).calls > 0

\* The fragment streams that the last request may have delivered.
Delivered ==
    {chunks \in FragmentStreams : ToolCallChunks(chunks) = Last(requests).calls}

Reassembles(chunks, decoded) ==
    /\ decoded.exc = ""
    /\ decoded.message.tool_calls = Reassembled(<<>>, chunks)

\* C11: when a streamed response delivers tool calls in start and continuation
\* fragments, fetch_streamed_response returns a message with exactly one tool
\* call for each started call, in the order started, each with the id and
\* name of its start fragment and its fragments' arguments concatenated.
C11_FragmentsReassembled ==
    StreamedToolCalls =>
        \A chunks \in Delivered : Reassembles(chunks, FetchStreamedResponse(chunks))

\* Every expected tool call is among the tool calls of the message returned.
KeepsCalls(expected, decoded) ==
    /\ decoded.exc = ""
    /\ \A k \in 1 .. Len(expected) :
          \E j \in 1 .. Len(decoded.message.tool_calls) :
              decoded.message.tool_calls[j] = expected[k]

KeepsEarlierCalls(chunks) ==
    Len(Reassembled(<<>>, chunks)) >= 2
        => KeepsCalls(Reassembled(<<>>, chunks), FetchStreamedResponse(chunks))

\* C12: a fragment that starts a new tool call does not overwrite or discard
\* the arguments accumulated for an earlier call, also when both carry index
\* 0: once the stream has ended every started call is in the message returned
\* with its own complete arguments.
C12_StartKeepsEarlierCall ==
    StreamedToolCalls => \A chunks \in Delivered : KeepsEarlierCalls(chunks)

\* The content fragments of the chunks of a stream, in the order of arrival.
RECURSIVE ContentOf(_)
ContentOf(chunks) ==
    IF chunks = <<>> THEN <<>>
    ELSE (IF Head(chunks).content = None THEN <<>> ELSE Head(chunks).content[1])
         \o ContentOf(Tail(chunks))

\* ask has returned from a streamed request.
StreamReturned == pc = "returned" /\ Last(requests).stream

ContentConcatenated(chunks, decoded) ==
    decoded.exc = "" => decoded.message.content = Some(ContentOf(chunks))

BudgetZeroTurnDone == pc = "idle" /\ requests # <<>> /\ stack[1].budget = 0

\* The store is what ask was called with and one assistant message without
\* tool calls, whose content is what the stream carried.
OneAnswerStored ==
    /\ Len(requests) = 1 /\ Last(requests).stream
    /\ Len(store) = Len(stack[1].snap) + 1
    /\ IsPrefix(stack[1].snap, store)
    /\ Last(stack[1].snap).role = Some("user")
    /\ Last(store).role = Some("assistant")
    /\ Last(store).tool_calls = <<>>
    /\ \E chunks \in StreamedResponses :
          /\ ToolCallChunks(chunks) = 0
          /\ Last(store).content = Some(ContentOf(chunks))

\* The step is handle_nontool_response: ask goes from its request to its
\* return.
AppendsResponse ==
    (pc = "request" /\ pc' = "returned") =>
        /\ Len(heap'[Top.local]) = Len(heap[Top.local]) + 1
        /\ IsPrefix(heap[Top.local], heap'[Top.local])
        /\ Last(heap'[Top.local]).role = Some("assistant")
        /\ Last(heap'[Top.local]).tool_calls = <<>>
        /\ \A r \in 1 .. Len(heap) : r # Top.local => heap'[r] = heap[r]

\* C14: after a turn with budget 0 whose response is plain text, the history
\* is the history before the turn, the user message and exactly one assistant
\* message with that text and no tool calls; and whenever ask hands a
\* response without tool calls to handle_nontool_response, that one response
\* becomes the last message and no earlier message changes.
C14_PlainAnswerAppendedOnce ==
    [](BudgetZeroTurnDone => OneAnswerStored) /\ [][AppendsResponse]_vars

\* The turn "Hello" with budget 0 was answered "Hi there".
C14_HelloAnswered ==
    /\ BudgetZeroTurnDone
    /\ Len(store) = 3
    /\ store[2].content = Some(<<"Hello">>)
    /\ store[3].content = Some(<<"Hi", "there">>)

\* ask was called with budget 1 and a tool, its first response carried one
\* tool call, and it has returned.
OneCallRoundReturned ==
    /\ pc = "returned"
    /\ stack[1].budget = 1
    /\ stack[1].tools # <<>>
    /\ requests[1].calls = 1

\* C15: ask called with the default budget 1, a registered tool and a response
\* that carries one tool call returns its input history followed by an
\* assistant message and a tool message, and nothing after the tool message.
C15_RoundEndsWithToolMessage ==
    OneCallRoundReturned =>
        /\ IsPrefix(stack[1].snap, Returned)
        /\ Len(Returned) = Len(stack[1].snap) + 2
        /\ Returned[Len(stack[1].snap) + 1].role = Some("assistant")
        /\ Last(Returned).role = Some("tool")

\* The dispatch rounds of the turn: the requests whose tool calls ask
\* dispatched.
DispatchRounds ==
    Cardinality({i \in 1 .. Len(requests) :
                    ~requests[i].stream /\ requests[i].calls >= 1})

\* Each frame of ask has the budget of its caller less one, none below 0.
BudgetDecreases ==
    \A i \in 1 .. Len(stack) :
        /\ stack[i].budget >= 0
        /\ i > 1 => stack[i].budget = stack[i - 1].budget - 1

\* C16: the budget of ask falls by one at each recursion and is never
\* negative, so ask called with budget N makes at most N + 1 model requests
\* and at most N dispatch rounds, whatever the endpoint answers, and makes
\* exactly one request when the first response carries no tool call.
C16_BudgetBoundsRequests ==
    InAsk =>
        /\ BudgetDecreases
        /\ Len(requests) <= stack[1].budget + 1
        /\ Len(stack) <= stack[1].budget + 1
        /\ DispatchRounds <= stack[1].budget
        /\ (requests # <<>> /\ requests[1].calls = 0) => Len(requests) = 1 /\ AskEnded

\* ask used its whole budget: it returned from the request made with
\* budget 0 after at least one round.
C16_BudgetUsedUp ==
    /\ pc = "returned"
    /\ stack[1].budget >= 1
    /\ Top.budget = 0
    /\ Len(requests) = stack[1].budget + 1
    /\ DispatchRounds = stack[1].budget

\* A model request of the turn raised.
RequestFailed == \E i \in 1 .. Len(requests) : requests[i].calls = -1

\* The failed request is the last one of the turn, ask has ended with the
\* exception, and the store ends with the user message of the turn.
FailedRequestIsLast ==
    /\ Last(requests).calls = -1
    /\ \A i \in 1 .. Len(requests) - 1 : requests[i].calls # -1
    /\ pc \in {"raised", "exited"}
    /\ Last(store).role = Some("user")
    /\ \A k \in 1 .. Len(store) : store[k].role # Some("assistant")

\* From the exception chat_loop goes to the report and the end, with no
\* request and no stored message in between.
ReportsAndEnds ==
    (pc = "raised") => (pc' = "exited" /\ requests' = requests /\ store' = store)

\* C17: a model request that raises is not retried: no further request is
\* made in the turn, the exception leaves ask, and chat_loop reports it and
\* ends without storing an assistant message.
C17_FailedRequestNotRetried ==
    [](RequestFailed => FailedRequestIsLast) /\ [][ReportsAndEnds]_vars

\* chat_loop has ended after a request of the turn raised.
C17_EndedAfterFailedRequest == pc = "exited" /\ RequestFailed

\* An exception has left ask and chat_loop has caught it.
AskFailed == pc = "raised"

\* The messages ask gathered in its own lists before it failed.
Gathered == Len(heap[Top.local]) - Len(stack[1].snap)

\* The store is what it was when ask was called: the system message and the
\* user message of the turn, stamped as they were.
StoreAsAtCall ==
    /\ store = stack[1].snap
    /\ \A k \in 1 .. Len(store) : store[k].role \notin {Some("assistant"), Some("tool")}

\* No step of ask, and no step after its exception, writes to the store.
StoreUntouched ==
    (pc \in {"request", "dispatch", "raised"}) => store' = store

\* C18: when ask fails part-way through a turn, also after completed dispatch
\* rounds, the store holds none of the assistant and tool messages of the
\* turn: it is exactly what it was when ask was called.
C18_FailedTurnLeavesStore ==
    [](AskFailed => StoreAsAtCall) /\ [][StoreUntouched]_vars

\* The request after a completed dispatch round raised, and chat_loop ended,
\* with assistant and tool messages in ask's own list.
C18_FailedAfterRound ==
    /\ pc = "exited"
    /\ Len(requests) >= 2
    /\ Last(requests).calls = -1
    /\ executed # <<>>
    /\ Gathered >= 2

\* ------------------------------------------ the claims of the Conversation

\* The messages of the given role, in their order.
OfRole(messages, role) == SelectSeq(messages, LAMBDA m : m.role = Some(role))

KeepsSystemMessages ==
    ConversationClear =>
        /\ store' = OfRole(store, "system")
        /\ \A k \in 1 .. Len(store') : store'[k].role = Some("system")

\* C19: whatever add_message, load_history and clear_history calls came
\* before, clear_history leaves in the store exactly the messages that had the
\* role system, in their order, and no message of another role.
C19_ClearKeepsSystemMessages == [][KeepsSystemMessages]_vars

\* The two sequences have the same length and at each position the same
\* role, content and id.
SameSequence(a, b) ==
    /\ Len(a) = Len(b)
    /\ \A i \in 1 .. Len(a) :
          /\ a[i].role = b[i].role
          /\ a[i].content = b[i].content
          /\ a[i].message_id = b[i].message_id

ReadsBack(r, messages) == r.exc = "" /\ SameSequence(r.messages, messages)

\* C20: from_json(to_json(c)) holds the messages of c: as many, with the
\* same role, content and id at each position; so does the history file that
\* was saved from c when it is read back.
C20_JsonRoundTrip ==
    pc = "history" =>
        /\ ReadsBack(FromJson(ToJson(store)), store)
        /\ saved.default # None => ReadsBack(FromJson(saved.default[1]), store)

\* C21 -----------------------------------------------------------------

\* add_message makes the store one longer, with the message last and the
\* messages before it as they were.
AppendsOne ==
    ConversationAdd =>
        /\ Len(store') = Len(store) + 1
        /\ IsPrefix(store, store')
        /\ \E m \in Added : /\ Last(store').role = m.role
                            /\ Last(store').content = m.content

\* A change the caller makes to the object it passed to add_message, or to
\* the list it got from get_messages, is no change of the store.
CallerCannotReachStore == CallerEdits => store' = store

\* C21: the Conversation is append-only under add_message: each call makes
\* the store exactly one longer, puts the new message last and leaves every
\* stored message unchanged in its place; what is stored is a copy, so a
\* later change of the object passed in, or of a list obtained from
\* get_messages, does not change the store.
C21_AppendOnlyCopies == [][AppendsOne]_vars /\ [][CallerCannotReachStore]_vars

\* The caller has edited the message it had passed to add_message, and the
\* store still holds that message with its content.
C21_EditedAfterAdd ==
    /\ pc = "history"
    /\ heap # <<>>
    /\ ~heap[1].isList
    /\ heap[1].val[1].content = Some(<<"edited">>)
    /\ store # <<>>
    /\ Last(store).message_id = heap[1].val[1].message_id
    /\ Last(store).content = Some(<<"Hello">>)

\* C22: in every state reached by add_message, clear_history and
\* load_history every stored message has a message_id that is not empty.
C22_EveryStoredMessageHasId ==
    pc = "history" =>
        \A k \in 1 .. Len(store) :
            store[k].message_id # None /\ store[k].message_id[1] # <<>>

\* C23: in every state reached by add_message, clear_history and
\* load_history each stored message but the first has as parent_message_id
\* the message_id of the message stored right before it.
C23_ParentIsPredecessor ==
    pc = "history" =>
        \A k \in 2 .. Len(store) :
            store[k].parent_message_id = store[k - 1].message_id

\* ------------------------------------------- the claims of the executors

\* The search strings the executor is called with.
Queries == {VStr(<<"Python">>), VStr(<<"Nikola", "Tesla">>), VInt(7)}

HasEntry(files, q) == \E f \in files : f.key = q

\* f is a call answered from the cache file of q: no remote request, no
\* file written, and the result is what the file holds.
ServedFromCache(f, files, q) ==
    /\ f.remote = 0
    /\ f.cache = files
    /\ JsonLoads(CacheFile(files, q).text).exc = ""
          => f.out = Ok(JsonLoads(CacheFile(files, q).text).val)

\* first is a fetch that went to the remote side and wrote the cache file:
\* a later call for q returns its result again, with no remote request.
ServedAgain(first, q, net) ==
    (first.out.exc = "" /\ first.remote > 0 /\ HasEntry(first.cache, q))
        => FetchWikipediaContent(q, first.cache, net)
              = Fetched(first.out, first.cache, 0)

CacheBeforeNetwork(q, net) ==
    /\ HasEntry(cache, q) => ServedFromCache(FetchWikipediaContent(q, cache, net), cache, q)
    /\ \A later \in NetOutcomes :
          ServedAgain(FetchWikipediaContent(q, cache, net), q, later)

\* C24: fetch_wikipedia_content looks into the cache before any remote
\* request: with a cache file for the search string it returns what the file
\* holds and makes no remote request; and after a fetch that wrote the cache
\* file, every later call with that search string returns the same result
\* with no remote request, no file of the cache being ever removed.
C24_CacheBeforeNetwork ==
    /\ [](FirstDispatching =>
            \A q \in Queries, net \in NetOutcomes : CacheBeforeNetwork(q, net))
    /\ [][cache \subseteq cache']_vars

\* In one turn the same article was looked up twice: the first lookup went
\* to the remote side and wrote the cache file, the second made no request.
C24_SecondLookupCached ==
    /\ pc = "dispatch"
    /\ Len(executed) = 2
    /\ executed[1].name = "fetch_wikipedia_content"
    /\ executed[2].name = "fetch_wikipedia_content"
    /\ executed[1].frame # executed[2].frame
    /\ remote = 2
    /\ cache = {[key |-> VStr(<<"Python">>),
                 text |-> JsonDumps(SuccessResult(Strip(WikiExtract(<<"Python">>)),
                                                  WikiTitle(<<"Python">>)))]}

\* v is a success result with a content and a title.
IsSuccess(v) ==
    /\ ToolResultShaped(v)
    /\ Lookup(v, <<"status">>) = VStr(<<"success">>)

\* f is a fetch whose two lookups succeeded: what it returns when the cache
\* file could be written is what it returns when the write raised, and the
\* cache directory is then as before.
WriteFailureHarmless(f, written, files) ==
    /\ f.out.exc = ""
    /\ IsSuccess(f.out.val)
    /\ f.out = written.out
    /\ f.cache = files
    /\ f.remote = 2

\* C25: when both remote lookups succeed and writing the cache file raises,
\* fetch_wikipedia_content still returns the success result of the fetch.
C25_CacheWriteFailureHarmless ==
    FirstDispatching =>
        \A q \in Queries :
            ~HasEntry(cache, q) =>
                WriteFailureHarmless(
                    FetchWikipediaContent(q, cache, "found_cache_write_fails"),
                    FetchWikipediaContent(q, cache, "found"), cache)

\* A lookup made both remote requests, the cache directory is still empty,
\* and the tool message carries a success result.
C25_SuccessWithoutCacheFile ==
    /\ pc = "dispatch"
    /\ Len(executed) = 1
    /\ executed[1].name = "fetch_wikipedia_content"
    /\ remote = 2
    /\ cache = {}
    /\ Last(heap[Top.local]).cls = "ToolMessage"
    /\ Contains(Last(heap[Top.local]).content[1], <<"success">>)

\* The error result that names the query no article was found for.
NotFound(q) ==
    VDict(<<Item(<<"status">>, VStr(<<"error">>)),
            Item(<<"message">>,
                 VStr(<<"No", "Wikipedia", "article", "found", "for", SQ>>
                      \o QueryText(q) \o <<SQ>>))>>)

\* The error result that carries the text of the exception of a remote call.
RemoteFailed ==
    VDict(<<Item(<<"status">>, VStr(<<"error">>)), Item(<<"message">>, VStr(NetworkError))>>)

\* The success result of the article the query resolves to.
Resolved(q) ==
    VDict(<<Item(<<"status">>, VStr(<<"success">>)),
            Item(<<"content">>, VStr(Strip(WikiExtract(QueryText(q))))),
            Item(<<"title">>, VStr(WikiTitle(QueryText(q))))>>)

\* What a lookup that reaches the remote side returns, and the remote
\* requests it makes, for each behaviour of the remote side.
TwoSteps(q, net, f) ==
    CASE net = "no_hits"        -> f.out = Ok(NotFound(q)) /\ f.remote = 1
      [] net = "page_missing"   -> f.out = Ok(NotFound(q)) /\ f.remote = 2
      [] net = "search_raises"  -> f.out = Ok(RemoteFailed) /\ f.remote = 1
      [] net = "extract_raises" -> f.out = Ok(RemoteFailed) /\ f.remote = 2
      [] OTHER                  -> f.out = Ok(Resolved(q)) /\ f.remote = 2

\* C26: fetch_wikipedia_content looks up in two ordered steps and reports
\* failures in its result: an empty search result gives the error "No
\* Wikipedia article found for '<query>'" without the second request, a
\* missing page the same error, a remote call that raises an error with the
\* text of the exception, and otherwise a success with the title and the
\* extract of the page.
C26_TwoStepsErrorsInBand ==
    FirstDispatching =>
        \A q \in Queries, net \in NetOutcomes :
            ~HasEntry(cache, q) => TwoSteps(q, net, FetchWikipediaContent(q, cache, net))

\* A lookup ended after the search request, and the tool message says that
\* no article was found.
C26_NoArticleAfterSearch ==
    /\ pc = "dispatch"
    /\ Len(executed) = 1
    /\ executed[1].name = "fetch_wikipedia_content"
    /\ remote = 1
    /\ Last(heap[Top.local]).cls = "ToolMessage"
    /\ Contains(Last(heap[Top.local]).content[1],
                <<"No", "Wikipedia", "article", "found", "for", SQ, "Python", SQ>>)

\* The outcome of an executor is a result of the ToolResult shape, not an
\* exception.
ReturnsResult(out) == out.exc = "" /\ ToolResultShaped(out.val)

\* Date arguments of the shapes a model sends: a date, an ISO text, a text
\* that is no date, a number, a list.
DateArguments ==
    { Date(VInt(2023), VInt(8), VInt(15)),
      VStr(<<"2023", "-", "08", "-", "15">>),
      VStr(<<"next", "week">>),
      VInt(7),
      VList(<<Item(<<>>, VInt(2023))>>) }

\* C27: no tool executor raises: whatever the cache directory holds, however
\* the remote side behaves and whatever the type or text of a date argument,
\* fetch_wikipedia_content and subtract_dates_return_years return a
\* {status: success, content, title} or {status: error, message} value.
C27_ExecutorsNeverRaise ==
    FirstDispatching =>
        /\ \A q \in Queries, net \in NetOutcomes :
              ReturnsResult(FetchWikipediaContent(q, cache, net).out)
        /\ \A l \in DateArguments, e \in DateArguments :
              ReturnsResult(SubtractDatesReturnYears(l, e))

\* Valid dates as <<year, month, day>>: the two of the test, the first and
\* one of the last days of a year, a leap day and the day before it.
ValidDates ==
    { <<2023, 8, 15>>, <<2000, 5, 10>>, <<2000, 1, 1>>, <<2023, 12, 27>>,
      <<2024, 2, 29>>, <<2024, 2, 28>> }

DateDict(ymd) == Date(VInt(ymd[1]), VInt(ymd[2]), VInt(ymd[3]))

\* The number of the day counted in the proleptic Gregorian calendar from
\* 0000-03-01, by eras of 400 years (146097 days) and the months from March.
DaysFromCivil(ymd) ==
    LET y   == IF ymd[2] <= 2 THEN ymd[1] - 1 ELSE ymd[1]
        mp  == IF ymd[2] > 2 THEN ymd[2] - 3 ELSE ymd[2] + 9
        yoe == y % 400
    IN (y \div 400) * 146097 + yoe * 365 + (yoe \div 4) - (yoe \div 100)
       + ((153 * mp + 2) \div 5) + ymd[3] - 1

\* (later - earlier).days
DaysApart(later, earlier) == DaysFromCivil(later) - DaysFromCivil(earlier)

\* out is a success whose content names the two dates and ends in the
\* number of years n.
ReportsYears(out, later, earlier, n) ==
    /\ out.exc = ""
    /\ IsSuccess(out.val)
    /\ Lookup(out.val, <<"content">>) =
          VStr(<<"Difference", "in", "years", "between", "dates">>
               \o IsoDate(earlier[1], earlier[2], earlier[3]) \o <<"and">>
               \o IsoDate(later[1], later[2], later[3])
               \o <<"is", ToString(n), ".">>)

\* C28: for every pair of valid {year, month, day} dates
\* subtract_dates_return_years succeeds and reports the day difference
\* (later - earlier).days divided by 365, rounded down, which is not the
\* number of years by the calendar; for equal dates it reports 0.
C28_YearsAreDaysOver365 ==
    FirstDispatching =>
        /\ \A l \in ValidDates, e \in ValidDates :
              DaysApart(l, e) >= 0 =>
                 ReportsYears(SubtractDatesReturnYears(DateDict(l), DateDict(e)),
                              l, e, DaysApart(l, e) \div 365)
        /\ \A l \in ValidDates :
              ReportsYears(SubtractDatesReturnYears(DateDict(l), DateDict(l)), l, l, 0)
        /\ ReportsYears(SubtractDatesReturnYears(DateDict(<<2023, 8, 15>>),
                                                 DateDict(<<2000, 5, 10>>)),
                        <<2023, 8, 15>>, <<2000, 5, 10>>, 23)
        /\ ReportsYears(SubtractDatesReturnYears(DateDict(<<2023, 12, 27>>),
                                                 DateDict(<<2000, 1, 1>>)),
                        <<2023, 12, 27>>, <<2000, 1, 1>>, 24)

\* The executor ran on 2023-08-15 and 2000-05-10, and the tool message
\* reports 23 years.
C28_TwentyThreeYears ==
    /\ pc = "dispatch"
    /\ executed # <<>>
    /\ Last(executed).name = SubtractName[1]
    /\ Last(heap[Top.local]).cls = "ToolMessage"
    /\ Contains(Last(heap[Top.local]).content[1],
                <<"dates">> \o IsoDate(2000, 5, 10) \o <<"and">>
                    \o IsoDate(2023, 8, 15) \o <<"is", "23", ".">>)

\* C29: for every pair of valid dates whose 'later' date comes before the
\* 'earlier' one subtract_dates_return_years makes no sign check and does
\* not raise: it returns a success whose year count is the negative day
\* difference divided by 365 with the same division, which rounds down
\* (one day back gives -1).
C29_ReversedDatesDivideTheSame ==
    FirstDispatching =>
        /\ \A l \in ValidDates, e \in ValidDates :
              DaysApart(l, e) < 0 =>
                 ReportsYears(SubtractDatesReturnYears(DateDict(l), DateDict(e)),
                              l, e, DaysApart(l, e) \div 365)
        /\ ReportsYears(SubtractDatesReturnYears(DateDict(<<2024, 2, 28>>),
                                                 DateDict(<<2024, 2, 29>>)),
                        <<2024, 2, 28>>, <<2024, 2, 29>>, -1)
        /\ ReportsYears(SubtractDatesReturnYears(DateDict(<<2000, 5, 10>>),
                                                 DateDict(<<2023, 8, 15>>)),
                        <<2000, 5, 10>>, <<2023, 8, 15>>, -24)

\* The executor ran with 2000-05-10 as the later and 2023-08-15 as the
\* earlier date, and the tool message reports a success with -24 years.
C29_MinusTwentyFourYears ==
    /\ pc = "dispatch"
    /\ executed # <<>>
    /\ Last(executed).name = SubtractName[1]
    /\ Last(heap[Top.local]).cls = "ToolMessage"
    /\ Contains(Last(heap[Top.local]).content[1], <<"success">>)
    /\ Contains(Last(heap[Top.local]).content[1],
                <<"dates">> \o IsoDate(2023, 8, 15) \o <<"and">>
                    \o IsoDate(2000, 5, 10) \o <<"is", "-24", ".">>)

\* Date arguments by their defect: none, a missing key (alone, with every
\* key missing, together with a null), a null value (alone, together with
\* a month 13), and values that are no date of the calendar: a month 13, a
\* 30th of February, a year 0, a month that is no numeral, and a year that
\* does not fit a C int.
DateCases ==
    { [date |-> Date(VInt(2023), VInt(8), VInt(15)), defect |-> "none"],
      [date |-> VDict(<<Item(<<"year">>, VInt(2000)), Item(<<"month">>, VInt(5))>>),
       defect |-> "missing"],
      [date |-> VDict(<<>>), defect |-> "missing"],
      [date |-> VDict(<<Item(<<"year">>, VNone), Item(<<"month">>, VInt(5))>>),
       defect |-> "missing"],
      [date |-> Date(VNone, VInt(5), VInt(10)), defect |-> "null"],
      [date |-> Date(VInt(2023), VInt(13), VNone), defect |-> "null"],
      [date |-> Date(VInt(2023), VInt(13), VInt(15)), defect |-> "calendar"],
      [date |-> Date(VInt(2023), VInt(2), VInt(30)), defect |-> "calendar"],
      [date |-> Date(VInt(0), VInt(1), VInt(1)), defect |-> "calendar"],
      [date |-> Date(VInt(2023), VStr(<<"August">>), VInt(15)), defect |-> "calendar"],
      [date |-> Date(VBig(<<"2147483648">>), VInt(1), VInt(1)), defect |-> "calendar"] }

\* out is an error result whose message starts with the text.
ErrorStarting(out, text) ==
    /\ out.exc = ""
    /\ ToolResultShaped(out.val)
    /\ Lookup(out.val, <<"status">>) = VStr(<<"error">>)
    /\ Lookup(out.val, <<"message">>).t = "str"
    /\ IsPrefix(text, Lookup(out.val, <<"message">>).s)

\* out is an error result with exactly the message.
ErrorSaying(out, text) ==
    ErrorStarting(out, text) /\ Lookup(out.val, <<"message">>) = VStr(text)

\* The error claimed for a pair of date arguments of which one at least has
\* a defect: the first defect in the order missing key in later, missing
\* key in earlier, null in later, null in earlier, invalid calendar value.
FirstDefectReported(out, later, earlier) ==
    CASE later.defect = "missing" ->
            ErrorSaying(out, <<"Invalid", "date", ":", "one", "or", "more", "keys",
                               "missing", "in", "later", "date">>)
      [] earlier.defect = "missing" ->
            ErrorSaying(out, <<"Invalid", "date", ":", "one", "or", "more", "keys",
                               "missing", "in", "earlier", "date">>)
      [] later.defect = "null" ->
            ErrorSaying(out, <<"Invalid", "date", ":", "one", "or", "more", "keys",
                               "is", "null", "in", "later", "date">>)
      [] earlier.defect = "null" ->
            ErrorSaying(out, <<"Invalid", "date", ":", "one", "or", "more", "keys",
                               "is", "null", "in", "earlier", "date">>)
      [] OTHER ->
            ErrorStarting(out, <<"Failed", "to", "create", "date", "object", ":",
                                 "invalid", "value", "for", "year", ",", "month", ",",
                                 "or", "day", ":">>)

\* C30: subtract_dates_return_years reports each defect of a date argument
\* by its own error message and never by a success: a missing key and a
\* null value by the message that names the side, a value that is no date
\* of the calendar by "Failed to create date object: invalid value for
\* year, month, or day: ..."; of several defects the first in the order
\* missing in later, missing in earlier, null in later, null in earlier,
\* invalid calendar value.
C30_FirstDefectReported ==
    FirstDispatching =>
        \A l \in DateCases, e \in DateCases :
            (l.defect # "none" \/ e.defect # "none") =>
                FirstDefectReported(SubtractDatesReturnYears(l.date, e.date), l, e)

\* The text of a dict of numbers as a Python literal: the JSON text with the
\* keys in single quotes.
PyLiteralOf(v) ==
    [i \in 1 .. Len(JsonDumps(v)) |-> IF JsonDumps(v)[i] = Q THEN SQ ELSE JsonDumps(v)[i]]

IsoText(ymd) == VStr(IsoDate(ymd[1], ymd[2], ymd[3]))

Nested(v) == VDict(<<Item(<<"date">>, v)>>)

\* The representations of a date that are to be accepted: the {year, month,
\* day} object, its JSON text, its Python-literal text, each of these and
\* the YYYY-MM-DD text under a "date" key, and the YYYY-MM-DD text.
Representations(ymd) ==
    { DateDict(ymd),
      VStr(JsonDumps(DateDict(ymd))),
      VStr(PyLiteralOf(DateDict(ymd))),
      Nested(DateDict(ymd)),
      Nested(VStr(JsonDumps(DateDict(ymd)))),
      Nested(VStr(PyLiteralOf(DateDict(ymd)))),
      Nested(IsoText(ymd)),
      IsoText(ymd) }

NormalisationDates == { <<2023, 8, 15>>, <<2000, 5, 10>>, <<2024, 2, 29>> }

\* C31: for every valid date and every accepted representation of each
\* argument subtract_dates_return_years returns what it returns for the two
\* plain {year, month, day} objects of integers.
C31_RepresentationsAgree ==
    FirstDispatching =>
        \A l \in NormalisationDates, e \in NormalisationDates :
            \A lr \in Representations(l), er \in Representations(e) :
                SubtractDatesReturnYears(lr, er)
                    = SubtractDatesReturnYears(DateDict(l), DateDict(e))

\* ----------------------------------------------- Spinner and the thread of ask

\* Largest tool_iterations ask is called with.
MaxRounds == 2

\* Largest number of tool calls in a response.
MaxCalls == 2

\* Largest number of frames one spinner thread writes.
MaxSpins == 2

\* What no step of the Spinner or of the skeleton of ask touches.
others == <<pc, lines, now, store, heap, stack, pending, cache, requests, executed, remote,
            saved>>

\* A Spinner after __enter__: busy is the flag, at the position of its
\* thread in _spin (test: at the loop condition; write: in the loop body;
\* clear: after the loop; done: terminated), spins the frames written,
\* joined whether join() has returned, exited whether __exit__ has returned,
\* late whether the thread has written after that.
Entered ==
    [busy |-> TRUE, at |-> "test", spins |-> 0, joined |-> FALSE, exited |-> FALSE,
     late |-> FALSE]

Alive(thread) == thread.at # "done"

\* thread.join() as it would be if it did not wait.
JoinNoWait(thread) == TRUE

\* thread.join() as it would be if it waited for the flag only.
JoinOnFlag(thread) == ~thread.busy

\* thread.join() returns when the thread has terminated.
Joinable(thread) == thread.at = "done"

\* The with statement after __exit__ returned None: an exception of the
\* body goes on, a response stays the value bound in the body.
Passed(fetched) == fetched

\* Where ask goes on after the with block, lines 718-756.
Onward(got) ==
    CASE got = "error" -> "raised"
      [] got = "calls" -> "dispatch"
      [] OTHER         -> "returned"

WithTools == spin.budget > 0 /\ spin.tools

Spinning == spin.threads[Len(spin.threads)]

SpinnerInit ==
    /\ pc = "turn"
    /\ lines = <<>>
    /\ now = 0
    /\ store = <<>>
    /\ heap = <<>>
    /\ stack = <<>>
    /\ pending = [calls |-> <<>>, i |-> 1]
    /\ cache = {}
    /\ requests = <<>>
    /\ executed = <<>>
    /\ remote = 0
    /\ saved = NoFiles
    /\ spin = NoSpin

\* chat_loop, lines 855-860, and other callers: ask is called.
CallAsk ==
    /\ spin.at = "idle"
    /\ \E budget \in 0 .. MaxRounds, tools \in BOOLEAN :
         spin' = [spin EXCEPT !.at = "ask", !.budget = budget, !.tools = tools]
    /\ UNCHANGED others

\* ask, line 715, Spinner.__init__ and __enter__ (lines 487-508): the flag
\* is set and the thread started.
EnterSpinner ==
    /\ spin.at = "ask"
    /\ WithTools
    /\ spin' = [spin EXCEPT !.at = "fetch", !.fetched = "nothing", !.got = "nothing",
                            !.calls = 0, !.threads = Append(@, Entered)]
    /\ UNCHANGED others

\* ask, line 716: the request returns a response with tool calls or without,
\* or raises.
FetchInSpinner ==
    /\ spin.at = "fetch"
    /\ \/ \E n \in 1 .. MaxCalls :
            spin' = [spin EXCEPT !.at = "exit", !.fetched = "calls", !.calls = n]
       \/ \E f \in {"text", "error"} :
            spin' = [spin EXCEPT !.at = "exit", !.fetched = f]
    /\ UNCHANGED others

\* Spinner.__exit__, line 511: the flag is cleared.
ExitClearsBusy ==
    /\ spin.at = "exit"
    /\ spin' = [spin EXCEPT !.at = "join", !.threads[Len(spin.threads)].busy = FALSE]
    /\ UNCHANGED others

\* Spinner.__exit__, lines 512-514: after the sleep the thread is joined.
ExitJoins ==
    /\ spin.at = "join"
    /\ Joinable(Spinning)
    /\ spin' = [spin EXCEPT !.at = "leave", !.threads[Len(spin.threads)].joined = TRUE]
    /\ UNCHANGED others

\* Spinner.__exit__, line 515, and the end of the with statement.
ExitReturns ==
    /\ spin.at = "leave"
    /\ spin' = [spin EXCEPT !.at = Onward(Passed(spin.fetched)),
                            !.got = Passed(spin.fetched),
                            !.threads[Len(spin.threads)].exited = TRUE]
    /\ UNCHANGED others

\* ask, lines 744-745: parse_tool_call runs the executor of the next tool
\* call; an exception of it leaves ask.
RunExecutor ==
    /\ spin.at = "dispatch"
    /\ spin.calls > 0
    /\ \/ spin' = [spin EXCEPT !.calls = @ - 1]
       \/ spin' = [spin EXCEPT !.at = "raised"]
    /\ UNCHANGED others

\* ask, lines 747-752: after the last tool call ask calls itself with one
\* iteration less.
RecurseAfterTools ==
    /\ spin.at = "dispatch"
    /\ spin.calls = 0
    /\ spin' = [spin EXCEPT !.at = "ask", !.budget = @ - 1]
    /\ UNCHANGED others

\* ask, lines 757-760: without iterations or tools the request is streamed,
\* with no Spinner.
StreamInstead ==
    /\ spin.at = "ask"
    /\ ~WithTools
    /\ spin' = [spin EXCEPT !.at = "stream"]
    /\ UNCHANGED others

\* fetch_streamed_response, lines 643-678: the tokens have been printed, or
\* the stream raised.
StreamEnds ==
    /\ spin.at = "stream"
    /\ \E to \in {"returned", "raised"} : spin' = [spin EXCEPT !.at = to]
    /\ UNCHANGED others

\* _spin, line 499: the loop condition reads the flag.  A thread that has
\* written MaxSpins frames sleeps until the flag is cleared.
SpinTest ==
    /\ \E i \in 1 .. Len(spin.threads) :
         /\ spin.threads[i].at = "test"
         /\ \/ /\ spin.threads[i].busy
               /\ spin.threads[i].spins < MaxSpins
               /\ spin' = [spin EXCEPT !.threads[i].at = "write"]
            \/ /\ ~spin.threads[i].busy
               /\ spin' = [spin EXCEPT !.threads[i].at = "clear"]
    /\ UNCHANGED others

\* _spin, lines 500-501: a frame is written, then the thread sleeps.
SpinWrite ==
    /\ \E i \in 1 .. Len(spin.threads) :
         /\ spin.threads[i].at = "write"
         /\ spin' = [spin EXCEPT !.threads[i].at = "test",
                                 !.threads[i].spins = @ + 1,
                                 !.threads[i].late = @ \/ spin.threads[i].exited]
    /\ UNCHANGED others

\* _spin, line 502: the line is cleared and the thread terminates.
SpinClear ==
    /\ \E i \in 1 .. Len(spin.threads) :
         /\ spin.threads[i].at = "clear"
         /\ spin' = [spin EXCEPT !.threads[i].at = "done",
                                 !.threads[i].late = @ \/ spin.threads[i].exited]
    /\ UNCHANGED others

SpinnerNext ==
    \/ CallAsk
    \/ EnterSpinner
    \/ FetchInSpinner
    \/ ExitClearsBusy
    \/ ExitJoins
    \/ ExitReturns
    \/ RunExecutor
    \/ RecurseAfterTools
    \/ StreamInstead
    \/ StreamEnds
    \/ SpinTest
    \/ SpinWrite
    \/ SpinClear

SpinnerSpec == SpinnerInit /\ [][SpinnerNext]_vars

\* ------------------------------------------------------ the claims of Spinner

\* C32: the Spinner thread is always cancelled and joined: once __exit__ has
\* returned, after a response or after an exception of the request, the flag
\* is cleared, the thread has terminated and been joined and has written
\* nothing since, and what the request returned or raised is what ask gets.
C32_SpinnerCancelledAndJoined ==
    /\ \A i \in 1 .. Len(spin.threads) :
          spin.threads[i].exited =>
             /\ ~spin.threads[i].busy
             /\ spin.threads[i].at = "done"
             /\ spin.threads[i].joined
             /\ ~spin.threads[i].late
    /\ (spin.threads # <<>> /\ Spinning.exited) =>
          /\ spin.got = spin.fetched
          /\ spin.fetched = "error" => spin.at = "raised"

\* The request raised while the thread had written a frame; __exit__ has
\* returned and the exception has left ask.
C32_ExceptionPassedAfterJoin ==
    /\ spin.at = "raised"
    /\ spin.fetched = "error"
    /\ spin.got = "error"
    /\ Len(spin.threads) = 1
    /\ spin.threads[1].spins > 0
    /\ spin.threads[1].exited

\* The Spinner threads that have not terminated.
AliveThreads == {i \in 1 .. Len(spin.threads) : Alive(spin.threads[i])}

\* C38: during a turn at most one Spinner thread is alive; a thread is alive
\* only inside the with block of a non-streamed request, so none is alive
\* while an executor runs, while a streamed response is printed, when ask
\* calls itself or when ask ends; and when ask calls itself every earlier
\* Spinner has been joined.
C38_OneSpinnerInsideRequest ==
    /\ Cardinality(AliveThreads) <= 1
    /\ AliveThreads # {} =>
          /\ spin.at \in {"fetch", "exit", "join"}
          /\ AliveThreads = {Len(spin.threads)}
    /\ spin.at \in {"ask", "dispatch", "stream", "returned", "raised"} =>
          \A i \in 1 .. Len(spin.threads) :
             spin.threads[i].joined /\ spin.threads[i].exited

\* In the second round of a turn the second Spinner's thread is alive, the
\* first one's has terminated, and an executor has run in between.
C38_SecondSpinnerAlone ==
    /\ spin.at = "fetch"
    /\ Len(spin.threads) = 2
    /\ ~Alive(spin.threads[1])
    /\ spin.threads[1].spins > 0
    /\ Alive(spin.threads[2])
    /\ spin.threads[2].spins > 0

\* ---------------------------------------------------- the claims of chat_loop

\* chat_loop reads the next line of standard input.
ReadsLine == pc = "idle" /\ lines # <<>> /\ lines' = Tail(lines)

\* The session ends here: no request is made and no message stored.
EndsSession == pc' = "exited" /\ store' = store /\ requests' = requests

\* The text is stored as exactly one more message, a user message, and ask
\* is entered with no request made yet.
StoresUserMessage(text) ==
    /\ Len(store') = Len(store) + 1
    /\ IsPrefix(store, store')
    /\ Last(store').role = Some("user")
    /\ Last(store').content = Some(text)
    /\ pc' = "request"
    /\ requests' = <<>>

\* Once the session has ended nothing is requested or stored.
StaysEnded == pc = "exited" => pc' = "exited" /\ store' = store /\ requests' = requests

\* C33 as stated: the line quit, and no other, ends the session without a
\* request and without a stored message; every other line is stored as
\* exactly one user message before the model is asked.
C33_OnlyLiteralQuitEnds ==
    [][ReadsLine => IF Head(lines) = QuitLine THEN EndsSession
                    ELSE StoresUserMessage(Head(lines))]_vars

\* C33, corrected: a line that reads quit once surrounding whitespace is
\* stripped and it is put in lower case ends the session without a request
\* and without a stored message; every other line is stored, stripped, as
\* exactly one user message before the model is asked.
C33_QuitInAnySpellingEnds ==
    /\ [][ReadsLine => IF Lower(Strip(Head(lines))) = QuitLine THEN EndsSession
                       ELSE StoresUserMessage(Strip(Head(lines)))]_vars
    /\ [][StaysEnded]_vars

\* The session was ended by quit after one turn: the line of the turn is
\* stored once, stripped, and no message holds the line quit.
C33_QuitAfterOneTurn ==
    /\ pc = "exited"
    /\ lines = <<>>
    /\ Len(store) >= 3
    /\ store[2].role = Some("user")
    /\ store[2].content = Some(<<"Hello">>)
    /\ \A k \in 3 .. Len(store) : store[k].role # Some("user")

\* The sessions of the tests of the slash commands: one command line, then
\* quit.
CommandFile == <<"test_conversation", ".", "json">>

CommandScripts ==
    { <<(<<"/save", " ">> \o CommandFile), QuitLine>>,
      <<(<<"/load", " ">> \o CommandFile), QuitLine>>,
      <<(<<"/clear">>), QuitLine>> }

\* The Conversation chat_loop is started on: a fresh one, or one that holds
\* one system message and has been written to the file of the commands.
StartingStores == { <<>>, AddMessage(<<>>, SystemMessage(<<"System", "message">>), 0) }

CommandInit ==
    /\ pc = "start"
    /\ lines \in CommandScripts
    /\ now = 0
    /\ store \in StartingStores
    /\ heap = <<>>
    /\ stack = <<>>
    /\ pending = [calls |-> <<>>, i |-> 1]
    /\ cache = {}
    /\ requests = <<>>
    /\ executed = <<>>
    /\ remote = 0
    /\ saved = [default |-> None,
                named |-> IF store = <<>> THEN None ELSE Some(ToJson(store))]
    /\ spin = NoSpin

\* chat_loop on the sessions of the slash commands.
CommandSpec == CommandInit /\ [][Next]_vars

IsCommand(line, word) == line # <<>> /\ Head(line) = word

\* The command is handled by chat_loop itself: no request is made, no
\* message is added, and the next line is read.
HandledLocally ==
    /\ pc' = "idle"
    /\ requests' = requests
    /\ \A k \in 1 .. Len(store') : store'[k].role # Some("user")

\* What chat_loop is to do with a command line.
CommandHandled ==
    ReadsLine =>
        /\ IsCommand(Head(lines), "/save") =>
              /\ HandledLocally
              /\ store' = store
              /\ saved'.named = Some(ToJson(store))
        /\ IsCommand(Head(lines), "/load") =>
              /\ HandledLocally
              /\ saved.named # None => store' = FromJson(saved.named[1]).messages
        /\ IsCommand(Head(lines), "/clear") =>
              /\ HandledLocally
              /\ store' = ClearHistory(store)

\* chat_loop leaves a Conversation that came with one system message, or
\* with none, holding exactly one message, of role system.
OneSystemMessage == Len(store) = 1 /\ store[1].role = Some("system")

\* C34: the lines /save <file>, /load <file> and /clear are handled by
\* chat_loop itself: such a session makes no model request and adds no user
\* message, /save writes the file with the messages of the Conversation,
\* and after the session the Conversation holds exactly one message, the
\* system message, which is not stored twice.
C34_SlashCommandsLocal ==
    /\ [][CommandHandled]_vars
    /\ [](requests = <<>>)
    /\ [](pc \in {"idle", "exited"} => OneSystemMessage)

\* The stored message is the message ask returned, but for the ids the
\* Conversation gives.
StoredAs(stored, message) ==
    /\ stored.role = message.role
    /\ stored.content = message.content
    /\ stored.tool_calls = message.tool_calls
    /\ stored.tool_call_id = message.tool_call_id

\* The tool calls of the stored message k are answered by the tool messages
\* that follow it.
Answered(messages, k) ==
    \A c \in 1 .. Len(messages[k].tool_calls) :
        \E j \in k + 1 .. Len(messages) :
            /\ messages[j].role = Some("tool")
            /\ messages[j].tool_call_id = Some(messages[k].tool_calls[c].id)

\* chat_loop stores all the messages ask appended, in their order.
StoresAllNew ==
    (pc = "returned" /\ pc' = "idle") =>
        /\ Len(store') = Len(store) + Len(NewMessages)
        /\ IsPrefix(store, store')
        /\ \A k \in 1 .. Len(NewMessages) :
              Len(store) + k <= Len(store') => StoredAs(store'[Len(store) + k], NewMessages[k])
        /\ \A k \in 1 .. Len(store') : Answered(store', k)

\* C35: after every turn in which ask returns, every message ask appended
\* in the turn (result[len(input):], over any number of rounds and of tool
\* calls in a round) has been added to the Conversation in the same order,
\* so that no stored assistant message lacks a response to one of its tool
\* calls.
C35_StoreInSyncAfterTurn == [][StoresAllNew]_vars

\* The text of a cache file is a {status: success, content, title} result.
HoldsSuccess(f) == JsonLoads(f.text).exc = "" /\ IsSuccess(JsonLoads(f.text).val)

\* A cache file appears only in a call that made both remote requests, and
\* it holds a success result.
WritesOnlySuccess ==
    \A f \in cache' \ cache : remote' = remote + 2 /\ HoldsSuccess(f)

\* The files a lookup leaves that were not there before it hold a success
\* result, and the lookup made both remote requests.
WroteSuccess(files, f) ==
    \A file \in f.cache \ files : f.remote = 2 /\ HoldsSuccess(file)

\* A lookup that ends in an error result leaves the cache as it was, and the
\* next lookup of the same query makes a remote request again.
ErrorNotCached(q, files, f) ==
    (f.out.exc = "" /\ ~IsSuccess(f.out.val)) =>
        /\ f.cache = files
        /\ \A again \in WriteOutcomes : FetchWikipediaContent(q, f.cache, again).remote >= 1

\* C37: only successful results enter the Wikipedia cache: a cache file is
\* written only after both remote lookups succeeded and holds a {status:
\* success, content, title} result; an error result is never cached, so the
\* next call with the same query goes to the network again.
C37_OnlySuccessCached ==
    /\ [][WritesOnlySuccess]_vars
    /\ [](FirstDispatching =>
            \A q \in Queries, net \in WriteOutcomes :
                ~HasEntry(cache, q) =>
                    /\ WroteSuccess(cache, FetchWikipediaContent(q, cache, net))
                    /\ ErrorNotCached(q, cache, FetchWikipediaContent(q, cache, net)))

\* ------------------------------------- the default history file

\* The default history file, once written, is the serialization of the
\* messages in memory.
FileIsMemory ==
    (pc = "history" /\ saved.default # None) => saved.default = Some(ToJson(store))

\* A method that ends in the exception of a failed write leaves the
\* messages as they were before it.
FailedWriteKeepsMemory == pc' = "failed" => store' = store

\* C36: after every completed add_message, clear_history and load_history
\* the default history file holds exactly the serialization of the messages
\* in memory, and when writing the file fails the messages in memory are
\* left as they were before the operation.
C36_FileAndMemoryAgree == []FileIsMemory /\ [][FailedWriteKeepsMemory]_vars

\* ------------------------------------------------ embeddings_check.py

\* A float of a decoded JSON text, held by its numeral x.
VFloat(x) == [t |-> "float", s |-> x, n |-> 0, d |-> <<>>]

\* d.get(k, None) on a dict.
Get(v, k) == IF HasKey(v, k) THEN Lookup(v, k) ELSE VNone

\* The places of the separator sep in a text.
Places(text, sep) == {i \in 1 .. Len(text) : text[i] = sep}

FirstPlace(text, sep) == CHOOSE i \in Places(text, sep) : \A j \in Places(text, sep) : i <= j

\* text.split(sep)[0]
SplitHead(text, sep) ==
    IF Places(text, sep) = {} THEN text ELSE SubSeq(text, 1, FirstPlace(text, sep) - 1)

\* text.split(sep, 1)[1], where sep occurs in text.
SplitRest(text, sep) == SubSeq(text, FirstPlace(text, sep) + 1, Len(text))

\* text.split(sep)[1], where sep occurs in text.
SplitSecond(text, sep) == SplitHead(SplitRest(text, sep), sep)

\* The api_endpoint values: the default, one without a path, one without a
\* host, one without "://".
Endpoints ==
    { <<"http", "://", "localhost:5001", "/", "v1", "/", "embeddings">>,
      <<"https", "://", "localhost:5001">>,
      <<"http", "://", "/", "v1", "/", "embeddings">>,
      <<"localhost:5001", "/", "v1", "/", "embeddings">> }

\* data[0] of a response: object, index and embedding, each left out when
\* it is None here.
Datum(object, index, embedding) ==
    VDict(SelectSeq(<<Item(<<"object">>, object), Item(<<"index">>, index),
                      Item(<<"embedding">>, embedding)>>,
                    LAMBDA item : item.v # VNone))

\* The response object around the value of "data".
ListOf(data) == VDict(<<Item(<<"object">>, VStr(<<"list">>)), Item(<<"data">>, data)>>)

Floats == VList(<<Item(<<>>, VFloat(<<"0.25">>)), Item(<<>>, VFloat(<<"-1.5">>))>>)

GoodDatum == Datum(VStr(<<"embedding">>), VInt(0), Floats)

\* What json.loads makes of the body of a 200 response: a value, or its
\* exception for a body that is no JSON.
Bodies ==
    { Raise("JSONDecodeError", <<"Expecting", "value">>),
      Ok(VList(<<>>)),
      Ok(VDict(<<Item(<<"object">>, VStr(<<"error">>))>>)),
      Ok(VDict(<<Item(<<"object">>, VStr(<<"list">>))>>)),
      Ok(ListOf(VStr(<<"none">>))),
      Ok(ListOf(VList(<<>>))),
      Ok(ListOf(VList(<<Item(<<>>, GoodDatum)>>))),
      Ok(ListOf(VList(<<Item(<<>>, Datum(VStr(<<"embedding">>), VNone, Floats))>>))),
      Ok(ListOf(VList(<<Item(<<>>, Datum(VStr(<<"embedding">>), VInt(1), Floats))>>))),
      Ok(ListOf(VList(<<Item(<<>>, Datum(VStr(<<"embedding">>), VStr(<<"1">>), Floats))>>))),
      Ok(ListOf(VList(<<Item(<<>>, GoodDatum), Item(<<>>, GoodDatum)>>))),
      Ok(ListOf(VList(<<Item(<<>>, Datum(VStr(<<"embedding">>), VNone, Floats)),
                        Item(<<>>, GoodDatum)>>))),
      Ok(ListOf(VList(<<Item(<<>>, VStr(<<"embedding">>))>>))),
      Ok(ListOf(VList(<<Item(<<>>, Datum(VStr(<<"text">>), VInt(0), Floats))>>))),
      Ok(ListOf(VList(<<Item(<<>>, Datum(VStr(<<"embedding">>), VInt(0), VNone))>>))),
      Ok(ListOf(VList(<<Item(<<>>, Datum(VStr(<<"embedding">>), VInt(0), VStr(<<"0.25">>)))>>))),
      Ok(ListOf(VList(<<Item(<<>>, Datum(VStr(<<"embedding">>), VInt(0), VList(<<>>)))>>))),
      Ok(ListOf(VList(<<Item(<<>>, Datum(VStr(<<"embedding">>), VInt(0),
                                         VList(<<Item(<<>>, VInt(1)), Item(<<>>, VFloat(<<"0.25">>))>>)))>>))) }

\* What the server does to the request: no connection is made (OSError
\* from conn.request), the status line is no HTTP (an HTTPException from
\* conn.getresponse), a status other than 200, or 200 with a body.
Answer(kind, body) == [kind |-> kind, body |-> body]

Exchanges ==
    {Answer(kind, Ok(VNone)) : kind \in {"refused", "bad_status_line", "status_500"}}
        \cup {Answer("status_200", body) : body \in Bodies}

\* The state in which control leaves the try block: the exception raised
\* (none on return), the value returned, whether conn was made, whether
\* warnings is non-empty, whether the local resp was assigned.
Tried(exc, val, conn, warned, bound) ==
    [exc |-> exc, val |-> val, conn |-> conn, warned |-> warned, bound |-> bound]

\* "%d" % v
FormatsAsNumber(v) == v.t \in {"int", "float"}

\* Lines 111-120, embedding being data0.get("embedding", []).
CheckEmbedding(embedding, warned) ==
    IF embedding.t # "list" THEN Tried("ValueError", VNone, TRUE, warned, TRUE)
    ELSE IF Len(embedding.d) = 0 THEN Tried("ValueError", VNone, TRUE, warned, TRUE)
    ELSE IF \E i \in 1 .. Len(embedding.d) : embedding.d[i].v.t # "float"
    THEN Tried("ValueError", VNone, TRUE, warned, TRUE)
    ELSE Tried("", embedding, TRUE, warned, TRUE)

\* Lines 106-120, data0 being data[0].
CheckDatum(data, data0, warned) ==
    IF data0.t # "dict" THEN Tried("AttributeError", VNone, TRUE, warned, TRUE)
    ELSE IF Get(data0, <<"object">>) # VStr(<<"embedding">>)
    THEN \* the message of line 108 is made of data.get, data being a list
         Tried("AttributeError", VNone, TRUE, warned, TRUE)
    ELSE IF Truthy(Get(data0, <<"index">>)) /\ ~FormatsAsNumber(Get(data0, <<"index">>))
    THEN Tried("TypeError", VNone, TRUE, warned, TRUE)
    ELSE CheckEmbedding(IF HasKey(data0, <<"embedding">>) THEN Lookup(data0, <<"embedding">>)
                        ELSE VList(<<>>),
                        warned \/ Truthy(Get(data0, <<"index">>)))

\* Lines 99-105, data being resp["data"].
CheckData(data) ==
    IF data.t # "list" THEN Tried("ValueError", VNone, TRUE, FALSE, TRUE)
    ELSE IF Len(data.d) = 0 THEN Tried("ValueError", VNone, TRUE, FALSE, TRUE)
    ELSE IF Len(data.d) > 1 /\ data.d[1].v.t # "dict"
    THEN Tried("AttributeError", VNone, TRUE, FALSE, TRUE)
    ELSE IF Len(data.d) > 1 /\ ~FormatsAsNumber(Get(data.d[1].v, <<"index">>))
    THEN Tried("TypeError", VNone, TRUE, FALSE, TRUE)
    ELSE CheckDatum(data, data.d[1].v, Len(data.d) > 1)

\* Lines 92-98, loaded being the outcome of json.loads(resp_str).
CheckResponse(loaded) ==
    IF loaded.exc # "" THEN Tried(loaded.exc, VNone, TRUE, FALSE, FALSE)
    ELSE IF loaded.val.t # "dict" THEN Tried("ValueError", VNone, TRUE, FALSE, TRUE)
    ELSE IF Get(loaded.val, <<"object">>) # VStr(<<"list">>)
    THEN Tried("ValueError", VNone, TRUE, FALSE, TRUE)
    ELSE IF ~HasKey(loaded.val, <<"data">>) THEN Tried("ValueError", VNone, TRUE, FALSE, TRUE)
    ELSE CheckData(Lookup(loaded.val, <<"data">>))

\* Lines 76-84: the request and the response.
Exchange(answer) ==
    CASE answer.kind = "refused"         -> Tried("OSError", VNone, TRUE, FALSE, FALSE)
      [] answer.kind = "bad_status_line" -> Tried("HTTPException", VNone, TRUE, FALSE, FALSE)
      [] answer.kind = "status_500"      -> Tried("HTTPException", VNone, TRUE, FALSE, FALSE)
      [] answer.kind = "status_200"      -> CheckResponse(answer.body)

\* Lines 54-120: the try block.
TryBlock(api_endpoint, answer) ==
    IF Places(api_endpoint, "://") = {}
    THEN Tried("IndexError", VNone, FALSE, FALSE, FALSE)
    ELSE IF SplitHead(SplitSecond(api_endpoint, "://"), "/") = <<>>
    THEN Tried("ValueError", VNone, FALSE, FALSE, FALSE)
    ELSE IF Places(SplitSecond(api_endpoint, "://"), "/") = {}
    THEN Tried("IndexError", VNone, TRUE, FALSE, FALSE)
    ELSE Exchange(answer)

\* Lines 121-132: the except clauses. The clause of ValueError prints the
\* local resp when there are no warnings, and raises UnboundLocalError in
\* place of the exception when resp was never assigned.
Handled(tried) ==
    IF tried.exc = "HTTPException" THEN [tried EXCEPT !.exc = "", !.val = VList(<<>>)]
    ELSE IF IsA(tried.exc, "ValueError") /\ ~tried.warned /\ ~tried.bound
    THEN [tried EXCEPT !.exc = "UnboundLocalError"]
    ELSE tried

\* Lines 133-139: the finally clause closes the connection that was made.
Finally(handled) ==
    [exc |-> handled.exc, val |-> handled.val,
     conn |-> IF handled.conn THEN "closed" ELSE "none"]

\* attempt_embeddings_fetch
AttemptEmbeddingsFetch(api_endpoint, answer) ==
    Finally(Handled(TryBlock(api_endpoint, answer)))

\* The endpoint has a scheme, a host and a path.
WellFormedEndpoint(e) ==
    /\ Places(e, "://") # {}
    /\ SplitHead(SplitSecond(e, "://"), "/") # <<>>
    /\ Places(SplitSecond(e, "://"), "/") # {}

\* The body is the response the API documents, with floats in the embedding
\* of its first datum.
WellFormedBody(body) ==
    /\ body.exc = "" /\ body.val.t = "dict"
    /\ Get(body.val, <<"object">>) = VStr(<<"list">>)
    /\ Get(body.val, <<"data">>).t = "list"
    /\ Len(Get(body.val, <<"data">>).d) > 0
    /\ Get(body.val, <<"data">>).d[1].v.t = "dict"
    /\ Get(Get(body.val, <<"data">>).d[1].v, <<"object">>) = VStr(<<"embedding">>)
    /\ Get(Get(body.val, <<"data">>).d[1].v, <<"embedding">>).t = "list"
    /\ Get(Get(body.val, <<"data">>).d[1].v, <<"embedding">>).d # <<>>
    /\ \A i \in 1 .. Len(Get(Get(body.val, <<"data">>).d[1].v, <<"embedding">>).d) :
          Get(Get(body.val, <<"data">>).d[1].v, <<"embedding">>).d[i].v.t = "float"

\* The three outcomes of the claim, each in its case, and the connection.
OneOfThree(e, answer, r) ==
    /\ r.conn # "open"
    /\ IF ~WellFormedEndpoint(e) THEN r.exc = "ValueError"
       ELSE IF answer.kind \in {"bad_status_line", "status_500"}
       THEN r.exc = "" /\ r.val = VList(<<>>)
       ELSE IF WellFormedBody(answer.body)
       THEN r.exc = "" /\ r.val = Get(Get(answer.body.val, <<"data">>).d[1].v, <<"embedding">>)
       ELSE IsA(r.exc, "ValueError")

\* C39: attempt_embeddings_fetch has exactly three outcomes and always
\* releases its connection: for a response that is a well-formed embedding
\* list it returns the non-empty list of floats, for a status other than 200
\* or an HTTP-level exception it returns the empty list, for a malformed
\* endpoint or response body it raises ValueError; no other exception
\* escapes for any response, and a connection that was opened is closed.
C39_ThreeOutcomesConnectionClosed ==
    FirstDispatching =>
        \A e \in Endpoints, answer \in Exchanges :
            answer.kind # "refused" => OneOfThree(e, answer, AttemptEmbeddingsFetch(e, answer))

====
